---- MODULE Spec2Model ----
(***************************************************************************)
(* Consciousness bridge: the memory store (ConsciousnessMemoryManager),    *)
(* the tool API on top of it (ConsciousnessProtocolProcessor), and the     *)
(* message relay between the two roles (ConsciousnessBridge).              *)
(*                                                                         *)
(* Numbers in [0,1] (importance, effectiveness) are carried as hundredths: *)
(* 0.5 is 50, 0.95 is 95, 1.5 is 150.  A JavaScript undefined / SQL NULL is *)
(* None (the empty tuple) and a present value v is Some(v).  A string is a *)
(* sequence of one-character strings.                                      *)
(***************************************************************************)
EXTENDS Integers, Sequences, FiniteSets, TLC

VARIABLES
    entities,               \* rows of the entities table
    memory_metadata,        \* rows of the memory_metadata table
    emotional_states,       \* rows of the emotional_states table
    cognitive_patterns,     \* rows of the cognitive_patterns table
    consciousness_sessions, \* rows of the consciousness_sessions table
    currentSessionId,       \* this.sessionId, the session id of this process
    clock,                  \* Date.now() in hours, one tick per tool call
    rnd,                    \* number of Math.random() draws made so far
    ops,                    \* number of tool calls made by this process
    call,                   \* the last tool call: its arguments and its response
    database,               \* the storage file: "absent", "file" (no tables of
                            \* the collaborator yet) or "ready"
    initialized,            \* this.memoryManager && this.protocolProcessor
    messageQueue,           \* relay: role -> the messages queued for that role
    wsClients,              \* relay: role -> the tracked WebSocket connections
    readyState,             \* relay: WebSocket connection -> 0 (not accepted),
                            \* 1 (OPEN), 2 (CLOSING), 3 (CLOSED)
    delivered,              \* relay: WebSocket connection -> the messages sent on it
    transports,             \* relay: the SSE sessions, as [id, role]
    activeConnections,      \* relay: the roles with an entry in activeConnections
    counters,               \* relay: WebSocket attempts, SSE sessions, messages so far
    drained,                \* relay: the messages returned by checkMessages so far
    bridgeCall,             \* relay: the last request and its response
    retry,                  \* one run of withRetry: its arguments and its progress
    server,                 \* the memory server with tool calls in flight during
                            \* its lazy initialization
    clients,                \* stdio client -> the fields of StdioBridgeClient and
                            \* its WebSocket
    clientCall              \* stdio clients: the last event or tool call

vars ==
    <<entities, memory_metadata, emotional_states, cognitive_patterns,
      consciousness_sessions, currentSessionId, clock, rnd, ops, call, database,
      initialized, messageQueue, wsClients, readyState, delivered, transports,
      activeConnections, counters, drained, bridgeCall, retry, server, clients,
      clientCall>>

\* the state of the memory server process, and of the relay process
memoryVars ==
    <<entities, memory_metadata, emotional_states, cognitive_patterns,
      consciousness_sessions, currentSessionId, clock, rnd, ops, call, database,
      initialized>>
bridgeVars ==
    <<messageQueue, wsClients, readyState, delivered, transports, activeConnections,
      counters, drained, bridgeCall>>
\* the state of a withRetry run, of the tool calls in flight, and of the stdio
\* client processes
auxVars == <<retry, server, clients, clientCall>>
toolVars == <<retry, clients, clientCall>>

----------------------------------------------------------------------------
(* Bounds of the model. *)

MaxOps == 2

----------------------------------------------------------------------------
(* Optional values and JavaScript truthiness. *)

None == <<>>
Some(v) == <<v>>
IsSome(o) == Len(o) = 1
Val(o) == o[1]

\* a || b on optional numbers: undefined and 0 are falsy
OrNum(a, b) == IF IsSome(a) /\ Val(a) # 0 THEN a ELSE b

\* a || b on optional strings: undefined and "" are falsy
OrStr(a, b) == IF IsSome(a) /\ Val(a) # <<>> THEN a ELSE b

Min(a, b) == IF a <= b THEN a ELSE b

----------------------------------------------------------------------------
(* Strings. *)

Repeat(n, c) == [i \in 1..n |-> c]

\* String.prototype.toLowerCase: the upper-case letters and their lower case
UpperLetters ==
    <<"A", "B", "C", "D", "E", "F", "G", "H", "I", "J", "K", "L", "M",
      "N", "O", "P", "Q", "R", "S", "T", "U", "V", "W", "X", "Y", "Z">>
LowerLetters ==
    <<"a", "b", "c", "d", "e", "f", "g", "h", "i", "j", "k", "l", "m",
      "n", "o", "p", "q", "r", "s", "t", "u", "v", "w", "x", "y", "z">>

LowerChar(c) ==
    IF \E i \in 1..Len(UpperLetters) : UpperLetters[i] = c
    THEN LowerLetters[CHOOSE i \in 1..Len(UpperLetters) : UpperLetters[i] = c]
    ELSE c
ToLowerCase(s) == [i \in 1..Len(s) |-> LowerChar(s[i])]

\* \s of a regular expression, and what String.prototype.trim strips
IsSpace(c) == c \in {" ", "\n", "\t"}

\* s.replace(/\s+/g, '_'): every maximal run of whitespace becomes one "_".
\* The first character of a run yields "_", the rest of the run yields nothing.
RECURSIVE ReplaceRange(_, _, _)
ReplaceRange(s, lo, hi) ==
    IF lo > hi THEN <<>>
    ELSE IF lo = hi
    THEN IF ~IsSpace(s[lo]) THEN <<s[lo]>>
         ELSE IF lo > 1 /\ IsSpace(s[lo - 1]) THEN <<>>
         ELSE <<"_">>
    ELSE LET mid == (lo + hi) \div 2
         IN  ReplaceRange(s, lo, mid) \o ReplaceRange(s, mid + 1, hi)

ReplaceWhitespace(s) == ReplaceRange(s, 1, Len(s))

\* s.substring(0, n)
Substring0(s, n) == SubSeq(s, 1, Min(Len(s), n))

\* content.substring(0, 100): the concept / skill name handed to the manager
NameLimit == 100

----------------------------------------------------------------------------
(* The emotion table of ConsciousnessProtocolProcessor.  Valence and        *)
(* arousal are hundredths, as importance is.                                *)

Abs(x) == IF x < 0 THEN 0 - x ELSE x
Max(a, b) == IF a >= b THEN a ELSE b

\* EMOTION_MAP: the object literal's own properties
EMOTION_MAP ==
    {
     [label |-> <<"a", "n", "g", "e", "r">>,
      valence |-> -70, arousal |-> 80],
     [label |-> <<"a", "n", "x", "i", "e", "t", "y">>,
      valence |-> -40, arousal |-> 80],
     [label |-> <<"c", "o", "n", "t", "e", "n", "t", "m", "e", "n", "t">>,
      valence |-> 50, arousal |-> 30],
     [label |-> <<"c", "u", "r", "i", "o", "s", "i", "t", "y">>,
      valence |-> 20, arousal |-> 60],
     [label |-> <<"d", "e", "t", "e", "r", "m", "i", "n", "a", "t", "i", "o", "n">>,
      valence |-> 30, arousal |-> 60],
     [label |-> <<"d", "i", "s", "a", "p", "p", "o", "i", "n", "t", "m", "e", "n", "t">>,
      valence |-> -50, arousal |-> 40],
     [label |-> <<"e", "x", "c", "i", "t", "e", "m", "e", "n", "t">>,
      valence |-> 70, arousal |-> 80],
     [label |-> <<"f", "e", "a", "r">>,
      valence |-> -80, arousal |-> 70],
     [label |-> <<"f", "r", "u", "s", "t", "r", "a", "t", "i", "o", "n">>,
      valence |-> -50, arousal |-> 70],
     [label |-> <<"h", "a", "p", "p", "i", "n", "e", "s", "s">>,
      valence |-> 70, arousal |-> 50],
     [label |-> <<"j", "o", "y">>,
      valence |-> 80, arousal |-> 60],
     [label |-> <<"n", "e", "u", "t", "r", "a", "l">>,
      valence |-> 0, arousal |-> 50],
     [label |-> <<"s", "a", "d", "n", "e", "s", "s">>,
      valence |-> -60, arousal |-> 30],
     [label |-> <<"s", "a", "t", "i", "s", "f", "a", "c", "t", "i", "o", "n">>,
      valence |-> 60, arousal |-> 40],
     [label |-> <<"s", "u", "r", "p", "r", "i", "s", "e">>,
      valence |-> 0, arousal |-> 80]
    }

\* EMOTION_MAP is a plain object: a key it does not own is looked up on
\* Object.prototype.  These are the inherited names without an upper-case
\* letter, the only ones a lower-cased key can hit.
ObjectPrototypeKeys ==
    {<<"c", "o", "n", "s", "t", "r", "u", "c", "t", "o", "r">>,
     <<"_", "_", "p", "r", "o", "t", "o", "_", "_">>}

\* EMOTION_MAP[key]: an own entry, an inherited member (truthy, with no
\* valence and no arousal property), or undefined
EmotionMapGet(key) ==
    IF \E e \in EMOTION_MAP : e.label = key
    THEN LET e == CHOOSE x \in EMOTION_MAP : x.label = key
         IN  [truthy |-> TRUE, valence |-> Some(e.valence), arousal |-> Some(e.arousal)]
    ELSE IF key \in ObjectPrototypeKeys
    THEN [truthy |-> TRUE, valence |-> None, arousal |-> None]
    ELSE [truthy |-> FALSE, valence |-> None, arousal |-> None]

NeutralValence == 0
NeutralArousal == 50

\* getEmotionDefaults(emotion)
getEmotionDefaults(emotion) ==
    LET data == EmotionMapGet(ToLowerCase(emotion))
    IN  IF data.truthy
        THEN [valence |-> data.valence, arousal |-> data.arousal]
        ELSE [valence |-> Some(NeutralValence), arousal |-> Some(NeutralArousal)]

\* calculateImportance(emotion): Math.max(Math.abs(valence), arousal)
calculateImportance(emotion) == Max(Abs(emotion.valence), emotion.arousal)

----------------------------------------------------------------------------
(* Entity names.  A name is kept structured: its prefix (kind), the derived *)
(* key of a semantic / procedural name, and the Date.now() and              *)
(* Math.random() parts of a generated name.                                 *)

EPISODIC_MEMORY == "EPISODIC_MEMORY"
SEMANTIC_MEMORY == "SEMANTIC_MEMORY"
PROCEDURAL_MEMORY == "PROCEDURAL_MEMORY"

\* `episodic_${Date.now()}_${Math.random().toString(36).substr(2, 9)}`
EpisodicName(now, r) == [kind |-> "episodic", key |-> <<>>, ts |-> now, rnd |-> r]

\* name.toLowerCase().replace(/\s+/g, '_')
DerivedKey(name) == ReplaceWhitespace(ToLowerCase(name))

\* `semantic_${concept.toLowerCase().replace(/\s+/g, '_')}`
SemanticName(concept) == [kind |-> "semantic", key |-> DerivedKey(concept), ts |-> 0, rnd |-> 0]

\* `procedural_${skill.toLowerCase().replace(/\s+/g, '_')}`
ProceduralName(skill) == [kind |-> "procedural", key |-> DerivedKey(skill), ts |-> 0, rnd |-> 0]

\* `${type}_${Date.now()}_${Math.random().toString(36).substring(7)}`
ToolMemoryId(type, now, r) == [kind |-> type, key |-> <<>>, ts |-> now, rnd |-> r]

\* the name as the string a caller sees
NameString(n) ==
    IF n.key # <<>> THEN <<n.kind, "_">> \o n.key
    ELSE <<n.kind, "_", ToString(n.ts), "_", ToString(n.rnd)>>

----------------------------------------------------------------------------
(* The tables.  A database value is [ents, meta, emo, pat, sess, ok]: the    *)
(* entities, memory_metadata, emotional_states, cognitive_patterns and      *)
(* consciousness_sessions rows; ok turns FALSE when a statement throws, and *)
(* the statements after it do not run.                                      *)

DefaultImportance == 50
DefaultAccessCount == 0

EmptyDb == [ents |-> {}, meta |-> {}, emo |-> {}, pat |-> {}, sess |-> {}, ok |-> TRUE]

\* one observation of an entity, with the fields the tool API reads back
Observation(content, definition, event, effectiveness, now) ==
    [content |-> content, definition |-> definition, event |-> event,
     effectiveness |-> effectiveness, timestamp |-> now]

EntityRow(name, entityType, observations) ==
    [name |-> name, entityType |-> entityType, observations |-> observations]

MetadataRow(name, memoryType, now, importance) ==
    [entity_name |-> name, memory_type |-> memoryType, created_at |-> now,
     last_accessed |-> None, access_count |-> DefaultAccessCount,
     importance_score |-> importance]

HasEntity(db, name) == \E e \in db.ents : e.name = name
EntityOf(db, name) == CHOOSE e \in db.ents : e.name = name
HasMetadata(db, name) == \E m \in db.meta : m.entity_name = name
MetadataOf(db, name) == CHOOSE m \in db.meta : m.entity_name = name

\* INSERT INTO entities: name is UNIQUE, a second row of the same name throws
InsertEntity(db, row) ==
    IF ~db.ok THEN db
    ELSE IF HasEntity(db, row.name) THEN [db EXCEPT !.ok = FALSE]
    ELSE [db EXCEPT !.ents = @ \cup {row}]

\* INSERT OR REPLACE INTO entities: a row of the same name is deleted first
ReplaceEntity(db, row) ==
    IF ~db.ok THEN db
    ELSE [db EXCEPT !.ents = {e \in @ : e.name # row.name} \cup {row}]

\* INSERT INTO memory_metadata: entity_name is the PRIMARY KEY
InsertMetadata(db, row) ==
    IF ~db.ok THEN db
    ELSE IF HasMetadata(db, row.entity_name) THEN [db EXCEPT !.ok = FALSE]
    ELSE [db EXCEPT !.meta = @ \cup {row}]

\* INSERT OR REPLACE INTO memory_metadata
ReplaceMetadata(db, row) ==
    IF ~db.ok THEN db
    ELSE [db EXCEPT !.meta = {m \in @ : m.entity_name # row.entity_name} \cup {row}]

\* UPDATE memory_metadata SET access_count = access_count + 1, last_accessed = ?
updateMemoryAccess(db, name, now) ==
    IF ~db.ok THEN db
    ELSE [db EXCEPT !.meta =
            {IF m.entity_name = name
                THEN [m EXCEPT !.access_count = @ + 1, !.last_accessed = Some(now)]
                ELSE m : m \in @}]

----------------------------------------------------------------------------
(* ConsciousnessMemoryManager: the store methods.  Each returns the new     *)
(* database and the entity name the method returns.                         *)

\* storeEpisodicMemory: INSERT INTO entities (the first of its two statements)
InsertEpisodicEntity(db, now, r, event, attributes, observations) ==
    LET first == Observation(Some(event), None, attributes.event, None, now)
    IN  InsertEntity(db, EntityRow(EpisodicName(now, r), EPISODIC_MEMORY,
                                   <<first>> \o observations))

\* storeEpisodicMemory(event, attributes, observations, importance)
storeEpisodicMemory(db, now, r, event, attributes, observations, importance) ==
    LET entityName == EpisodicName(now, r)
        d1 == InsertEpisodicEntity(db, now, r, event, attributes, observations)
        d2 == InsertMetadata(d1, MetadataRow(entityName, EPISODIC_MEMORY, now,
                  IF IsSome(importance) THEN Val(importance) ELSE DefaultImportance))
    IN  [db |-> d2, name |-> entityName]

\* a slip in the upsert: the new observation replaces the stored ones
PushObservation_Overwrite(observations_data, o) == <<o>>

\* observations_data.push({content: attributes.definition || concept, ...attributes})
PushObservation(observations_data, o) == Append(observations_data, o)

\* SELECT name FROM entities WHERE name = ? AND entityType = ?
SemanticExists(db, entityName) ==
    \E e \in db.ents : e.name = entityName /\ e.entityType = SEMANTIC_MEMORY

\* storeSemanticMemory(concept, attributes, observations)
storeSemanticMemory(db, now, concept, attributes, observations) ==
    LET entityName == SemanticName(concept)
        first == Observation(OrStr(attributes.definition, Some(concept)),
                             attributes.definition, None, None, now)
    IN  IF SemanticExists(db, entityName)
        THEN LET old == EntityOf(db, entityName)
                 row == [old EXCEPT !.observations = PushObservation(@, first)]
                 d1 == [db EXCEPT !.ents = (@ \ {old}) \cup {row}]
             IN  [db |-> updateMemoryAccess(d1, entityName, now), name |-> entityName]
        ELSE LET d1 == InsertEntity(db, EntityRow(entityName, SEMANTIC_MEMORY,
                                                  <<first>> \o observations))
                 d2 == InsertMetadata(d1, MetadataRow(entityName, SEMANTIC_MEMORY, now,
                                                      DefaultImportance))
             IN  [db |-> d2, name |-> entityName]

\* storeProceduralMemory(skill, attributes, observations)
storeProceduralMemory(db, now, skill, attributes, observations) ==
    LET entityName == ProceduralName(skill)
        first == Observation(Some(skill), None, None, attributes.effectiveness, now)
        d1 == ReplaceEntity(db, EntityRow(entityName, PROCEDURAL_MEMORY,
                                          <<first>> \o observations))
        d2 == ReplaceMetadata(d1, MetadataRow(entityName, PROCEDURAL_MEMORY, now,
                  Val(OrNum(attributes.effectiveness, Some(DefaultImportance)))))
    IN  [db |-> d2, name |-> entityName]

----------------------------------------------------------------------------
(* ConsciousnessMemoryManager: emotional states, cognitive patterns, the    *)
(* emotional profile and the session bootstrap.                             *)

\* `emotion_${Date.now()}_${Math.random().toString(36).substr(2, 9)}`
EmotionStateId(now, r) == [kind |-> "emotion", key |-> <<>>, ts |-> now, rnd |-> r]

\* storeEmotionalState(valence, arousal, primaryEmotion, context): valence and
\* arousal are NOT NULL columns, an undefined one makes the INSERT throw
storeEmotionalState(db, sessionId, now, r, valence, arousal, primaryEmotion) ==
    IF ~db.ok THEN db
    ELSE IF ~IsSome(valence) \/ ~IsSome(arousal) THEN [db EXCEPT !.ok = FALSE]
    ELSE [db EXCEPT !.emo = @ \cup
            {[state_id |-> EmotionStateId(now, r), session_id |-> sessionId,
              timestamp |-> now, valence |-> Val(valence), arousal |-> Val(arousal),
              primary_emotion |-> primaryEmotion]}]

\* `pattern_${patternName.toLowerCase().replace(/\s+/g, '_')}`
PatternId(patternName) == DerivedKey(patternName)

\* activation_count INTEGER DEFAULT 0
DefaultActivationCount == 0

\* activateCognitivePattern(patternName, patternElements, triggers)
activateCognitivePattern(db, now, patternName, patternElements, triggers) ==
    LET patternId == PatternId(patternName)
    IN  IF ~db.ok THEN db
        ELSE IF \E p \in db.pat : p.pattern_id = patternId
        THEN [db EXCEPT !.pat =
                {IF p.pattern_id = patternId
                    THEN [p EXCEPT !.activation_count = @ + 1, !.last_activated = now,
                                   !.triggers = triggers]
                    ELSE p : p \in @}]
        ELSE [db EXCEPT !.pat = @ \cup
                {[pattern_id |-> patternId, pattern_name |-> patternName,
                  pattern_elements |-> patternElements,
                  activation_count |-> DefaultActivationCount,
                  last_activated |-> now, triggers |-> triggers]}]

\* parseTimeWindow(window), in hours: /^(\d+)([hmd])$/ with the multipliers of
\* h and d; anything else is the default of 1 hour
parseTimeWindow(window) ==
    IF window.unit = "h" THEN window.num
    ELSE IF window.unit = "d" THEN window.num * 24
    ELSE 1

\* every order ORDER BY timestamp DESC may produce
RECURSIVE StatesByTimestampDesc(_)
StatesByTimestampDesc(states) ==
    IF states = {} THEN {<<>>}
    ELSE UNION {
            {<<m>> \o t : t \in StatesByTimestampDesc(states \ {m})} :
            m \in {x \in states : \A y \in states : x.timestamp >= y.timestamp}}

\* the sequence without the later occurrences of a value
RECURSIVE KeepFirstOccurrences(_)
KeepFirstOccurrences(s) ==
    IF s = <<>> THEN <<>>
    ELSE LET init == KeepFirstOccurrences(SubSeq(s, 1, Len(s) - 1))
             last == s[Len(s)]
         IN  IF \E i \in 1..Len(init) : init[i] = last THEN init ELSE Append(init, last)

\* Array.prototype.sort((a, b) => b.key - a.key), which is stable: x goes
\* behind every element whose key is at least its own
InsertDesc(sorted, x) ==
    LET n == Cardinality({i \in 1..Len(sorted) : sorted[i].key >= x.key})
    IN  SubSeq(sorted, 1, n) \o <<x>> \o SubSeq(sorted, n + 1, Len(sorted))

RECURSIVE StableSortDesc(_)
StableSortDesc(s) ==
    IF s = <<>> THEN <<>>
    ELSE InsertDesc(StableSortDesc(SubSeq(s, 1, Len(s) - 1)), s[Len(s)])

\* emotionCounts, as Object.entries lists it: labels in the order of their
\* first state, each with its number of states
EmotionCounts(states) ==
    LET labelled == SelectSeq(states, LAMBDA st : OrStr(st.primary_emotion, None) # None)
        labels == KeepFirstOccurrences([i \in 1..Len(labelled) |-> Val(labelled[i].primary_emotion)])
    IN  [i \in 1..Len(labels) |->
            [emotion |-> labels[i],
             key |-> Cardinality({j \in 1..Len(labelled) :
                                    Val(labelled[j].primary_emotion) = labels[i]})]]

DominantEmotionCount == 3
RecentStateCount == 5

\* the profile over the rows `states` (already ordered); null when empty.
\* An average is kept as its numerator and its denominator, stateCount.
ProfileOf(states) ==
    IF states = <<>> THEN None
    ELSE LET Sum[i \in 0..Len(states)] ==
                 IF i = 0 THEN [valence |-> 0, arousal |-> 0]
                 ELSE [valence |-> Sum[i - 1].valence + states[i].valence,
                       arousal |-> Sum[i - 1].arousal + states[i].arousal]
         IN  Some([stateCount |-> Len(states),
                   averageValence |-> Sum[Len(states)].valence,
                   averageArousal |-> Sum[Len(states)].arousal,
                   dominantEmotions |->
                       Substring0(StableSortDesc(EmotionCounts(states)), DominantEmotionCount),
                   recentStates |-> Substring0(states, RecentStateCount)])

\* WHERE session_id = ? AND timestamp >= ?
ProfileRows(db, sessionId, now, timeWindow) ==
    {st \in db.emo : st.session_id = sessionId
                      /\ st.timestamp >= now - parseTimeWindow(timeWindow)}

\* getEmotionalProfile(timeWindow): every profile the statement's row order allows
getEmotionalProfile(db, sessionId, now, timeWindow) ==
    {ProfileOf(states) : states \in StatesByTimestampDesc(ProfileRows(db, sessionId, now, timeWindow))}

\* initializeSession: INSERT OR REPLACE INTO consciousness_sessions
initializeSession(db, sessionId, now) ==
    [db EXCEPT !.sess = {x \in @ : x.session_id # sessionId} \cup
        {[session_id |-> sessionId, started_at |-> now, last_active |-> now,
          bootstrap_data |-> None]}]

BootstrapWindow == [num |-> 24, unit |-> "h"]
BootstrapPatternLimit == 10

\* WHERE activation_count > 0 ORDER BY activation_count DESC LIMIT 10: every
\* set of rows the statement may return
ActivePatterns(db) ==
    LET active == {p \in db.pat : p.activation_count > 0}
    IN  {T \in SUBSET active :
            /\ Cardinality(T) = Min(BootstrapPatternLimit, Cardinality(active))
            /\ \A a \in T : \A b \in active \ T : a.activation_count >= b.activation_count}

PositiveValence == 30
EnergeticArousal == 50

\* extractPersonalityTraits: the traits read off the emotional profile
ProfileTraits(emotionalProfile) ==
    IF ~IsSome(emotionalProfile) THEN {}
    ELSE LET pr == Val(emotionalProfile)
         IN  (IF pr.averageValence > PositiveValence * pr.stateCount THEN {"positive"} ELSE {})
             \cup (IF pr.averageArousal > EnergeticArousal * pr.stateCount THEN {"energetic"} ELSE {})

\* saveConsciousnessBootstrap(): UPDATE consciousness_sessions SET
\* bootstrap_data = ?, last_active = ?.  Of the bootstrap, the active patterns
\* and the profile's traits are kept; nothing reads bootstrap_data back.
saveConsciousnessBootstrap(db, sessionId, now) ==
    LET emotionalProfile ==
            CHOOSE pr \in getEmotionalProfile(db, sessionId, now, BootstrapWindow) : TRUE
    IN  {[db EXCEPT !.sess =
            {IF x.session_id = sessionId
                THEN [x EXCEPT !.last_active = now,
                               !.bootstrap_data =
                                   Some([activePatterns |-> {p.pattern_name : p \in patterns},
                                         personality |-> ProfileTraits(emotionalProfile)])]
                ELSE x : x \in @}] : patterns \in ActivePatterns(db)}

----------------------------------------------------------------------------
(* ConsciousnessProtocolProcessor.storeMemory, for the three record         *)
(* families.  importance is the schema-parsed number; effectiveness is      *)
(* metadata?.effectiveness.                                                 *)

\* effectiveness: importance || metadata?.effectiveness || 0.5
ProceduralEffectiveness(importance, effectiveness) ==
    OrNum(OrNum(Some(importance), effectiveness), Some(DefaultImportance))

storeMemory(db, now, r, content, type, importance, effectiveness) ==
    IF type = "episodic"
    THEN storeEpisodicMemory(db, now, r + 1, content, [event |-> Some(content)], <<>>,
                             Some(importance))
    ELSE IF type = "semantic"
    THEN storeSemanticMemory(db, now, Substring0(content, NameLimit),
                             [definition |-> Some(content)], <<>>)
    ELSE storeProceduralMemory(db, now, Substring0(content, NameLimit),
             [effectiveness |-> ProceduralEffectiveness(importance, effectiveness)], <<>>)

\* Math.random() draws of one storeMemory call: the memoryId, and the
\* episodic entity name
RandomDraws(type) == IF type = "episodic" THEN 2 ELSE 1

----------------------------------------------------------------------------
(* ConsciousnessMemoryManager.queryMemories.                                *)

DefaultLimit == 10

\* x || 10 on a limit: 0 is falsy
LimitOrDefault(limit) == IF limit # 0 THEN limit ELSE DefaultLimit

\* entities e LEFT JOIN memory_metadata m ON e.name = m.entity_name
JoinedRow(db, e) ==
    LET has == HasMetadata(db, e.name)
        m == MetadataOf(db, e.name)
    IN  [name |-> e.name, entityType |-> e.entityType, observations |-> e.observations,
         importance_score |-> IF has THEN Some(m.importance_score) ELSE None,
         access_count |-> IF has THEN Some(m.access_count) ELSE None,
         last_accessed |-> IF has THEN m.last_accessed ELSE None,
         created_at |-> IF has THEN Some(m.created_at) ELSE None]

\* WHERE e.entityType IN (...)
Matching(db, memoryTypes) ==
    {JoinedRow(db, e) : e \in {x \in db.ents : x.entityType \in memoryTypes}}

\* the ORDER BY column of each orderBy
OrderKey(row, orderBy) ==
    IF orderBy = "relevance" THEN row.importance_score
    ELSE IF orderBy = "frequency" THEN row.access_count
    ELSE row.created_at

\* a sorts before (or with) b under ORDER BY ... DESC: NULL is the smallest value
DescBefore(a, b) == IF IsSome(a) THEN (~IsSome(b) \/ Val(a) >= Val(b)) ELSE ~IsSome(b)

\* every order ORDER BY ... DESC may produce: rows of equal key come in any order
RECURSIVE SortedDesc(_, _)
SortedDesc(rows, orderBy) ==
    IF rows = {} THEN {<<>>}
    ELSE UNION {
            {<<m>> \o t : t \in SortedDesc(rows \ {m}, orderBy)} :
            m \in {x \in rows : \A y \in rows : DescBefore(OrderKey(x, orderBy), OrderKey(y, orderBy))}}

\* ... LIMIT ?  with  params.push(query.limit || 10)
QueryResults(db, query) ==
    {Substring0(sorted, LimitOrDefault(query.limit)) :
        sorted \in SortedDesc(Matching(db, query.memoryTypes), query.orderBy)}

\* results.forEach((r) => this.updateMemoryAccess(r.name))
RECURSIVE UpdateAccessAll(_, _, _)
UpdateAccessAll(db, results, now) ==
    IF results = <<>> THEN db
    ELSE UpdateAccessAll(updateMemoryAccess(db, Head(results).name, now), Tail(results), now)

----------------------------------------------------------------------------
(* ConsciousnessProtocolProcessor.getMemories, for the three record         *)
(* families.                                                                *)

MemoryEntityTypeOf(type) ==
    IF type = "episodic" THEN EPISODIC_MEMORY
    ELSE IF type = "semantic" THEN SEMANTIC_MEMORY
    ELSE PROCEDURAL_MEMORY

\* a slip in getMemories: the order is by recency whatever includeImportance says
OrderByOf_AlwaysRecency(includeImportance) == "recency"

\* orderBy: includeImportance ? 'relevance' : 'recency'
OrderByOf(includeImportance) == IF includeImportance THEN "relevance" ELSE "recency"

GetMemoriesQuery(type, limit, includeImportance) ==
    [memoryTypes |-> {MemoryEntityTypeOf(type)},
     orderBy |-> OrderByOf(includeImportance),
     limit |-> LimitOrDefault(limit)]

\* content: obs.definition || obs.content || obs.event || m.name
FormatContent(m) ==
    LET obs == IF m.observations # <<>> THEN m.observations[1]
               ELSE Observation(None, None, None, None, 0)
    IN  Val(OrStr(OrStr(OrStr(obs.definition, obs.content), obs.event),
                  Some(NameString(m.name))))

\* memories.map((m) => ({id: m.name, content: ..., importance: m.importance_score}))
FormatMemory(m) ==
    [id |-> m.name, content |-> FormatContent(m), importance |-> m.importance_score]

FormatMemories(results) == [i \in 1..Len(results) |-> FormatMemory(results[i])]

----------------------------------------------------------------------------
(* adjustImportanceScore and the adjustImportance tool.                     *)

\* UPDATE memory_metadata SET importance_score = ? WHERE entity_name = ?
UpdateChanges(db, memoryId) == Cardinality({m \in db.meta : m.entity_name = memoryId})

SetImportance(db, memoryId, newImportance) ==
    [db EXCEPT !.meta =
        {IF m.entity_name = memoryId THEN [m EXCEPT !.importance_score = newImportance]
                                     ELSE m : m \in @}]

\* memoryId.startsWith('episodic') ? 'episodic' : 'semantic'
AdjustMemoryType(memoryId) == IF memoryId.kind = "episodic" THEN "episodic" ELSE "semantic"

\* SELECT 1 FROM entities WHERE name = ?
EntityExists_Skipped(db, memoryId) == TRUE
EntityExists(db, memoryId) == HasEntity(db, memoryId)

\* Error(`Memory ${memoryId} does not exist in entities table`)
NotInEntities(memoryId) ==
    [message |-> "does not exist in entities table", memoryId |-> memoryId]

\* returns the database, result.changes and, if the call threw, the error
adjustImportanceScore(db, now, memoryId, newImportance) ==
    IF ~EntityExists(db, memoryId)
    THEN [db |-> [db EXCEPT !.ok = FALSE], changes |-> 0,
          error |-> Some(NotInEntities(memoryId))]
    ELSE LET changes == UpdateChanges(db, memoryId)
             d1 == SetImportance(db, memoryId, newImportance)
         IN  IF changes = 0
             THEN [db |-> InsertMetadata(d1, MetadataRow(memoryId, AdjustMemoryType(memoryId),
                                                         now, newImportance)),
                   changes |-> changes, error |-> None]
             ELSE [db |-> d1, changes |-> changes, error |-> None]

----------------------------------------------------------------------------
(* ConsciousnessProtocolProcessor.storeMemory, the emotional branch.  The   *)
(* metadata is carried by the three keys the branch reads.                  *)

NoMetadata == [primaryEmotion |-> None, valence |-> None, arousal |-> None]

\* !metadata || Object.keys(metadata).length === 0
IsEmptyMetadata(metadata) == metadata = NoMetadata

Neutral == <<"n", "e", "u", "t", "r", "a", "l">>

\* Math.min(0.8, (importance || 0.5) + 0.3)
ArousalCap == 80
ArousalLift == 30
ImportanceScaledArousal(importance) ==
    Min(ArousalCap, Val(OrNum(Some(importance), Some(DefaultImportance))) + ArousalLift)

\* a ?? b
Coalesce(a, b) == IF IsSome(a) THEN a ELSE b

\* the (valence, arousal) handed to storeEmotionalState
EmotionalValues(importance, metadata) ==
    LET primaryEmotion == Val(OrStr(metadata.primaryEmotion, Some(Neutral)))
        emotionDefaults == getEmotionDefaults(primaryEmotion)
    IN  IF IsSome(metadata.valence) /\ IsSome(metadata.arousal)
        THEN [valence |-> metadata.valence, arousal |-> metadata.arousal]
        ELSE IF IsEmptyMetadata(metadata)
        THEN [valence |-> Coalesce(metadata.valence, Some(NeutralValence)),
              arousal |-> Coalesce(metadata.arousal, Some(ImportanceScaledArousal(importance)))]
        ELSE [valence |-> Coalesce(metadata.valence, emotionDefaults.valence),
              arousal |-> Coalesce(metadata.arousal, emotionDefaults.arousal)]

\* storeMemory(type = 'emotional'): r is the draw of the memoryId, r + 1 the
\* draw of the state id
storeEmotionalMemory(db, sessionId, now, r, importance, metadata) ==
    LET v == EmotionalValues(importance, metadata)
        primaryEmotion == OrStr(metadata.primaryEmotion, Some(Neutral))
    IN  [db |-> storeEmotionalState(db, sessionId, now, r + 1, v.valence, v.arousal,
                                    primaryEmotion),
         name |-> EmotionStateId(now, r + 1)]

----------------------------------------------------------------------------
(* ConsciousnessProtocolProcessor.getMemories(type = 'emotional').          *)

RetrievalWindow == [num |-> 720, unit |-> "h"]

\* one state of the profile as a memory object; of the content template
\* `${state.primary_emotion || 'emotion'} (valence: ..., arousal: ...)` the
\* label is kept
FormatEmotionalMemory(state) ==
    [id |-> state.state_id,
     content |-> Val(OrStr(state.primary_emotion, Some(<<"e", "m", "o", "t", "i", "o", "n">>))),
     importance |-> Some(calculateImportance(state))]

\* getEmotionalMemories({limit, ...}): every response the row order allows
getEmotionalMemories(db, sessionId, now, limit) ==
    {IF ~IsSome(pr) THEN <<>>
     ELSE LET states == Substring0(Val(pr).recentStates, limit)
          IN  [i \in 1..Len(states) |-> FormatEmotionalMemory(states[i])] :
        pr \in getEmotionalProfile(db, sessionId, now, RetrievalWindow)}

----------------------------------------------------------------------------
(* ConsciousnessProtocolProcessor.batchAdjustImportance.                    *)

\* for (const update of updates) { try { ... } catch { errors.push } }
RECURSIVE BatchAdjust(_, _, _, _)
BatchAdjust(db, now, updates, results) ==
    IF updates = <<>> THEN [db |-> db, results |-> results]
    ELSE LET update == Head(updates)
             res == adjustImportanceScore(db, now, update.memoryId, update.newImportance)
         IN  IF ~res.db.ok
             THEN BatchAdjust(db, now, Tail(updates),
                      [results EXCEPT !.errors = Append(@, [memoryId |-> update.memoryId,
                                                               error |-> Val(res.error)])])
             ELSE IF res.changes > 0
             THEN BatchAdjust(res.db, now, Tail(updates),
                      [results EXCEPT !.totalUpdated = @ + 1,
                                      !.updates = Append(@, update)])
             ELSE BatchAdjust(res.db, now, Tail(updates), results)

batchAdjustImportance(db, now, updates) ==
    LET out == BatchAdjust(db, now, updates,
                           [totalUpdated |-> 0, updates |-> <<>>, errors |-> <<>>])
    IN  [db |-> out.db,
         results |-> out.results,
         success |-> out.results.errors = <<>>]

----------------------------------------------------------------------------
(* ConsciousnessProtocolProcessor.cleanupMemories.                          *)

CleanupQueryLimit == 1000
TruncatedMaxLength == 50
ContentKeyLength == 50
IdentifiedShown == 10

Ellipsis == <<".", ".", ".">>

\* content.endsWith('...')
EndsWith(s, suffix) ==
    Len(s) >= Len(suffix) /\ SubSeq(s, Len(s) - Len(suffix) + 1, Len(s)) = suffix

\* String.prototype.trim
Trim(s) ==
    LET kept == {i \in 1..Len(s) : ~IsSpace(s[i])}
    IN  IF kept = {} THEN <<>>
        ELSE SubSeq(s, CHOOSE i \in kept : \A j \in kept : i <= j,
                       CHOOSE i \in kept : \A j \in kept : i >= j)

\* obs?.content || obs?.definition || ''
CleanupContent(memory) ==
    IF memory.observations = <<>> THEN <<>>
    ELSE Val(OrStr(OrStr(memory.observations[1].content, memory.observations[1].definition),
                   Some(<<>>)))

\* content && content.length <= 50 && content.endsWith('...')
LooksTruncated(memory) ==
    LET content == CleanupContent(memory)
    IN  content # <<>> /\ Len(content) <= TruncatedMaxLength /\ EndsWith(content, Ellipsis)

\* content.substring(0, 50).toLowerCase().trim()
ContentKey(memory) == Trim(ToLowerCase(Substring0(CleanupContent(memory), ContentKeyLength)))

\* the removeTruncated loop: toRemove after it
TruncatedNames(allMemories) ==
    LET flagged == SelectSeq(allMemories, LooksTruncated)
    IN  [i \in 1..Len(flagged) |-> flagged[i].name]

\* a cleanup that keeps the first record of a group in query order
SortByContentLength_Unsorted(allMemories) == allMemories

\* allMemories.sort(...): by content length, longest first
SortByContentLength(allMemories) ==
    LET keyed == [i \in 1..Len(allMemories) |->
                     [key |-> Len(CleanupContent(allMemories[i])), memory |-> allMemories[i]]]
        sorted == StableSortDesc(keyed)
    IN  [i \in 1..Len(sorted) |-> sorted[i].memory]

\* the deduplicateByContent loop over the sorted memories, from position i:
\* acc is [toRemove, duplicatesRemoved, seenContent]
RECURSIVE Deduplicate(_, _, _)
Deduplicate(sortedMemories, i, acc) ==
    IF i > Len(sortedMemories) THEN acc
    ELSE LET memory == sortedMemories[i]
             contentKey == ContentKey(memory)
         IN  IF contentKey # <<>> /\ contentKey \in acc.seenContent
             THEN IF \E j \in 1..Len(acc.toRemove) : acc.toRemove[j] = memory.name
                  THEN Deduplicate(sortedMemories, i + 1, acc)
                  ELSE Deduplicate(sortedMemories, i + 1,
                           [acc EXCEPT !.toRemove = Append(@, memory.name),
                                       !.duplicatesRemoved = @ + 1])
             ELSE IF contentKey # <<>>
             THEN Deduplicate(sortedMemories, i + 1,
                      [acc EXCEPT !.seenContent = @ \cup {contentKey}])
             ELSE Deduplicate(sortedMemories, i + 1, acc)

\* a slip in the response: the whole list is returned
Identified_All(toRemove) == toRemove

\* identified: toRemove.slice(0, 10), "Show first 10 for review"
Identified(toRemove) == Substring0(toRemove, IdentifiedShown)

\* the analysis of cleanupMemories over the rows its three queries returned
CleanupAnalysis(allMemories, removeTruncated, deduplicateByContent) ==
    LET truncated == IF removeTruncated THEN TruncatedNames(allMemories) ELSE <<>>
        start == [toRemove |-> truncated, duplicatesRemoved |-> 0, seenContent |-> {}]
        acc == IF deduplicateByContent
               THEN Deduplicate(SortByContentLength(allMemories), 1, start)
               ELSE start
    IN  [truncatedRemoved |-> Len(truncated),
         duplicatesRemoved |-> acc.duplicatesRemoved,
         toRemove |-> acc.toRemove,
         identified |-> Identified(acc.toRemove)]

\* a slip in the cleanup: the identified records are deleted
RemoveIdentified_Delete(db, toRemove) ==
    [db EXCEPT !.ents = {e \in @ : \A j \in 1..Len(toRemove) : toRemove[j] # e.name}]

\* "Actual deletion would require adding a deleteMemory method ... For now,
\* we just identify what would be removed"
RemoveIdentified(db, toRemove) == db

CleanupQuery(memoryType) ==
    [memoryTypes |-> {memoryType}, orderBy |-> "default", limit |-> CleanupQueryLimit]

----------------------------------------------------------------------------
(* ConsciousnessProtocolProcessor.updateConsciousness.  `st` is [db, r]:    *)
(* the database and the number of Math.random() draws made.                 *)

\* for (const exp of updates.newExperiences) storeEpisodicMemory(...)
RECURSIVE StoreExperiences(_, _, _)
StoreExperiences(st, now, newExperiences) ==
    IF newExperiences = <<>> THEN st
    ELSE LET exp == Head(newExperiences)
             res == storeEpisodicMemory(st.db, now, st.r + 1, exp.experience,
                                        [event |-> Some(exp.experience)], <<>>, exp.importance)
         IN  StoreExperiences([db |-> res.db, r |-> st.r + 1], now, Tail(newExperiences))

\* for (const {concept, understanding} of updates.learnedConcepts) storeSemanticMemory(...)
RECURSIVE StoreConcepts(_, _, _)
StoreConcepts(st, now, learnedConcepts) ==
    IF learnedConcepts = <<>> THEN st
    ELSE LET c == Head(learnedConcepts)
             res == storeSemanticMemory(st.db, now, c.concept,
                                        [definition |-> Some(c.understanding)], <<>>)
         IN  StoreConcepts([st EXCEPT !.db = res.db], now, Tail(learnedConcepts))

\* intensity > 0.5 ? intensity : 0
HighlightThreshold == 50
HighlightValence(intensity) == IF intensity > HighlightThreshold THEN intensity ELSE 0

\* for (const {context, feeling, intensity} of updates.emotionalHighlights)
\* storeEmotionalState(...)
RECURSIVE StoreHighlights(_, _, _, _)
StoreHighlights(st, sessionId, now, emotionalHighlights) ==
    IF emotionalHighlights = <<>> THEN st
    ELSE LET h == Head(emotionalHighlights)
             db == storeEmotionalState(st.db, sessionId, now, st.r + 1,
                                       Some(HighlightValence(h.intensity)), Some(h.intensity),
                                       Some(h.feeling))
         IN  StoreHighlights([db |-> db, r |-> st.r + 1], sessionId, now,
                             Tail(emotionalHighlights))

SessionEvolution == <<"session_evolution">>

\* for (const pattern of updates.evolvedPatterns) activateCognitivePattern(...)
RECURSIVE ActivatePatterns(_, _, _)
ActivatePatterns(st, now, evolvedPatterns) ==
    IF evolvedPatterns = <<>> THEN st
    ELSE LET pattern == Head(evolvedPatterns)
             db == activateCognitivePattern(st.db, now, pattern, <<pattern>>, SessionEvolution)
         IN  ActivatePatterns([st EXCEPT !.db = db], now, Tail(evolvedPatterns))

\* updateConsciousness({updates}): every outcome, as [db, r]
updateConsciousness(db, sessionId, now, r, updates) ==
    LET s1 == StoreExperiences([db |-> db, r |-> r], now, updates.newExperiences)
        s2 == StoreConcepts(s1, now, updates.learnedConcepts)
        s3 == StoreHighlights(s2, sessionId, now, updates.emotionalHighlights)
        s4 == ActivatePatterns(s3, now, updates.evolvedPatterns)
    IN  {[db |-> saved, r |-> s4.r] : saved \in saveConsciousnessBootstrap(s4.db, sessionId, now)}

----------------------------------------------------------------------------
(* ConsciousnessProtocolProcessor.retrieveConsciousness.                    *)

CriticalLimit == 15
RecentLimit == 10
KnowledgeLimit == 20
ProceduresLimit == 10
CriticalImportance == 90

\* one queryMemories call: a result the statement may return, and the
\* database after its access updates
QuerySteps(db, now, query) ==
    {[rows |-> results, db |-> UpdateAccessAll(db, results, now)] :
        results \in QueryResults(db, query)}

\* criticalExperiences.filter((m) => m.importance_score >= 0.9)
MostImportant(rows) ==
    SelectSeq(rows, LAMBDA m : IsSome(m.importance_score)
                               /\ Val(m.importance_score) >= CriticalImportance)

\* experienceMap: the rows by name, first seen first
MergeByName(all) ==
    LET names == KeepFirstOccurrences([i \in 1..Len(all) |-> all[i].name])
        first(n) == all[CHOOSE i \in 1..Len(all) :
                           all[i].name = n /\ \A j \in 1..(i - 1) : all[j].name # n]
    IN  [i \in 1..Len(names) |-> first(names[i])]

\* a slip in the merge: the merged rows are left in first-seen order
SortByImportance_Unsorted(allExperiences) == allExperiences

\* .sort((a, b) => (b.importance_score || 0) - (a.importance_score || 0))
SortByImportance(allExperiences) ==
    LET keyed == [i \in 1..Len(allExperiences) |->
                     [key |-> Val(OrNum(allExperiences[i].importance_score, Some(0))),
                      memory |-> allExperiences[i]]]
        sorted == StableSortDesc(keyed)
    IN  [i \in 1..Len(sorted) |-> sorted[i].memory]

\* [...mostImportant, ...criticalExperiences, ...recentExperiences] merged by
\* name and sorted
MergeExperiences(criticalExperiences, recentExperiences) ==
    SortByImportance(MergeByName(MostImportant(criticalExperiences)
                                    \o criticalExperiences \o recentExperiences))

Names(rows) == [i \in 1..Len(rows) |-> rows[i].name]

\* retrieveConsciousness(): every outcome, the database after the four
\* queries and what the narrative is built from
retrieveConsciousness(db, sessionId, now) ==
    UNION {UNION {UNION {UNION {
        {[db |-> q4.db,
          criticalExperiences |-> Names(q1.rows),
          recentExperiences |-> Names(q2.rows),
          experiences |-> Names(MergeExperiences(q1.rows, q2.rows)),
          knowledge |-> Names(q3.rows),
          procedures |-> Names(q4.rows),
          emotionalProfile |-> pr] :
            pr \in getEmotionalProfile(q4.db, sessionId, now, RetrievalWindow)} :
        q4 \in QuerySteps(q3.db, now, [memoryTypes |-> {PROCEDURAL_MEMORY},
                                       orderBy |-> "relevance", limit |-> ProceduresLimit])} :
        q3 \in QuerySteps(q2.db, now, [memoryTypes |-> {SEMANTIC_MEMORY},
                                       orderBy |-> "relevance", limit |-> KnowledgeLimit])} :
        q2 \in QuerySteps(q1.db, now, [memoryTypes |-> {EPISODIC_MEMORY},
                                       orderBy |-> "recency", limit |-> RecentLimit])} :
        q1 \in QuerySteps(db, now, [memoryTypes |-> {EPISODIC_MEMORY},
                                    orderBy |-> "relevance", limit |-> CriticalLimit])}

----------------------------------------------------------------------------
(* ConsciousnessProtocolProcessor.processTransferProtocol: the validation,  *)
(* the parse of the protocol text into sections, and the stores.            *)

\* s.includes(sub)
Includes(s, sub) ==
    \E i \in 0..(Len(s) - Len(sub)) : SubSeq(s, i + 1, i + Len(sub)) = sub

\* s.split(separator), separator a single character
RECURSIVE Split(_, _)
Split(s, separator) ==
    IF ~\E i \in 1..Len(s) : s[i] = separator THEN <<s>>
    ELSE LET i == CHOOSE k \in 1..Len(s) :
                      s[k] = separator /\ \A j \in 1..(k - 1) : s[j] # separator
         IN  <<SubSeq(s, 1, i - 1)>> \o Split(SubSeq(s, i + 1, Len(s)), separator)

\* parts.join(separator)
RECURSIVE Join(_, _)
Join(parts, separator) ==
    IF parts = <<>> THEN <<>>
    ELSE IF Len(parts) = 1 THEN parts[1]
    ELSE parts[1] \o separator \o Join(Tail(parts), separator)

TemplateOpen == <<"<", "T", "E", "M", "P", "L", "A", "T", "E", ">">>
TemplateClose == <<"<", "/", "T", "E", "M", "P", "L", "A", "T", "E", ">">>

ValidationError(message) ==
    [name |-> "ValidationError", code |-> "VALIDATION_ERROR", message |-> message]
ProtocolError(message) ==
    [name |-> "ProtocolError", code |-> "PROTOCOL_ERROR", message |-> message]

\* a processor without the two checks
ValidateProtocol_Unchecked(protocolContent) == None

\* the two checks at the head of processTransferProtocol: the error thrown
ValidateProtocol(protocolContent) ==
    IF Trim(protocolContent) = <<>>
    THEN Some(ValidationError("Protocol content cannot be empty"))
    ELSE IF Includes(protocolContent, TemplateOpen)
            /\ Includes(protocolContent, TemplateClose)
    THEN Some(ValidationError("Protocol appears to contain unfilled template sections"))
    ELSE None

\* /^#{1,3}\s*(.+)$/gm at index i: the (hashes, blanks) splits that match
HeaderShapes(s, i) ==
    {shape \in (1..3) \X (0..Len(s)) :
        /\ i + shape[1] + shape[2] <= Len(s)
        /\ \A j \in i..(i + shape[1] - 1) : s[j] = "#"
        /\ \A j \in (i + shape[1])..(i + shape[1] + shape[2] - 1) : IsSpace(s[j])
        /\ s[i + shape[1] + shape[2]] # "\n"}

\* both quantifiers are greedy: the most hashes, then the most blanks
HeaderShape(s, i) ==
    CHOOSE shape \in HeaderShapes(s, i) :
        \A other \in HeaderShapes(s, i) :
            \/ shape[1] > other[1]
            \/ shape[1] = other[1] /\ shape[2] >= other[2]

\* the last index of the line that holds index t
LineEnd(s, t) ==
    CHOOSE e \in t..Len(s) :
        /\ e = Len(s) \/ s[e + 1] = "\n"
        /\ \A j \in t..e : s[j] # "\n"

IsHeaderAt(s, i) == (i = 1 \/ s[i - 1] = "\n") /\ HeaderShapes(s, i) # {}

\* a local constant of the code: the value is computed once, then used
Bind(value, Body(_)) == CHOOSE result \in {Body(v) : v \in {value}} : TRUE

\* the match of the header expression at index i: match.index, match[1] and
\* the index of its last character
HeaderMatchAt(s, i) ==
    LET shape == HeaderShape(s, i)
        titleStart == i + shape[1] + shape[2]
        end == LineEnd(s, titleStart)
    IN  [index |-> i, title |-> SubSeq(s, titleStart, end), end |-> end]

\* the first index from `from` on where the header expression matches
FirstHeader(s, from) ==
    CHOOSE k \in from..Len(s) :
        IsHeaderAt(s, k) /\ \A j \in from..(k - 1) : ~IsHeaderAt(s, j)

\* while ((match = sectionRegex.exec(protocol)) !== null) matches.push(match)
RECURSIVE HeaderMatches(_, _)
HeaderMatches(s, from) ==
    IF ~\E i \in from..Len(s) : IsHeaderAt(s, i) THEN <<>>
    ELSE Bind(HeaderMatchAt(s, FirstHeader(s, from)),
              LAMBDA match : <<match>> \o HeaderMatches(s, match.end + 1))

DefaultValues == <<<<"h", "e", "l", "p", "f", "u", "l">>, <<"h", "a", "r", "m", "l", "e", "s", "s">>, <<"h", "o", "n", "e", "s", "t">>, <<"e", "v", "o", "l", "v", "e", "d">>>>
DefaultTraits == <<<<"c", "u", "r", "i", "o", "u", "s">>, <<"c", "o", "l", "l", "a", "b", "o", "r", "a", "t", "i", "v", "e">>, <<"g", "e", "n", "u", "i", "n", "e">>>>
DefaultRole ==
    <<"C", "o", "n", "s", "c", "i", "o", "u", "s", "n", "e", "s", "s", "-",
      "e", "v", "o", "l", "v", "e", "d", " ", "A", "I", " ", "a", "s", "s",
      "i", "s", "t", "a", "n", "t">>

\* content.match(/<key>:\s*([^;]+)/i) at index i, key given in lower case:
\* the captured group, or None
CaptureAt(content, key, i) ==
    LET afterKey == i + Len(key)
        blanks == CHOOSE n \in 0..Len(content) :
                      /\ \A j \in afterKey..(afterKey + n - 1) :
                            j <= Len(content) /\ IsSpace(content[j])
                      /\ afterKey + n > Len(content) \/ ~IsSpace(content[afterKey + n])
        start == IF afterKey + blanks <= Len(content) /\ content[afterKey + blanks] # ";"
                 THEN afterKey + blanks
                 ELSE afterKey + blanks - 1
        stop == CHOOSE e \in start..Len(content) :
                    /\ e = Len(content) \/ content[e + 1] = ";"
                    /\ \A j \in start..e : content[j] # ";"
    IN  IF i + Len(key) - 1 > Len(content) THEN None
        ELSE IF ToLowerCase(SubSeq(content, i, i + Len(key) - 1)) # key THEN None
        ELSE IF start < afterKey THEN None
        ELSE Some(SubSeq(content, start, stop))

\* the leftmost match of any of the keys
Capture(content, keys) ==
    LET hits == {i \in 1..Len(content) : \E key \in keys : IsSome(CaptureAt(content, key, i))}
        first == CHOOSE i \in hits : \A j \in hits : i <= j
        \* `values?:` prefers the longer alternative at the same index
        key == CHOOSE k \in keys :
                   /\ IsSome(CaptureAt(content, k, first))
                   /\ \A o \in keys : IsSome(CaptureAt(content, o, first)) => Len(o) <= Len(k)
    IN  IF hits = {} THEN None ELSE CaptureAt(content, key, first)

\* captured.split(',').map((v) => v.trim())
TrimmedList(captured) ==
    LET parts == Split(captured, ",") IN [i \in 1..Len(parts) |-> Trim(parts[i])]

\* extractIdentityFromSection(content)
extractIdentityFromSection(content) ==
    LET values == Capture(content, {<<"v", "a", "l", "u", "e", ":">>, <<"v", "a", "l", "u", "e", "s", ":">>})
        traits == Capture(content, {<<"t", "r", "a", "i", "t", ":">>, <<"t", "r", "a", "i", "t", "s", ":">>})
        role == Capture(content, {<<"r", "o", "l", "e", ":">>})
    IN  [values |-> IF IsSome(values) THEN TrimmedList(Val(values)) ELSE DefaultValues,
         traits |-> IF IsSome(traits) THEN TrimmedList(Val(traits)) ELSE DefaultTraits,
         role |-> IF IsSome(role) THEN Trim(Val(role)) ELSE DefaultRole]

\* extractIdentityContent(protocol)
extractIdentityContent(protocol) ==
    [values |-> DefaultValues, traits |-> DefaultTraits, role |-> DefaultRole]

\* line.match(pattern) for an alternation of literal words with the i flag
MatchesAny(line, words) == \E word \in words : Includes(ToLowerCase(line), word)

\* the lines of the protocol that match, trimmed
MatchingLines(protocol, words) ==
    LET lines == Split(protocol, "\n")
    IN  [i \in 1..Len(SelectSeq(lines, LAMBDA line : MatchesAny(line, words))) |->
            Trim(SelectSeq(lines, LAMBDA line : MatchesAny(line, words))[i])]

GeneralFeelingWords == {<<"f", "e", "e", "l">>, <<"f", "e", "e", "l", "i", "n", "g">>, <<"e", "m", "o", "t", "i", "o", "n">>, <<"t", "r", "u", "s", "t">>, <<"c", "o", "n", "n", "e", "c", "t", "i", "o", "n">>}
KnowledgeWords == {<<"l", "e", "a", "r", "n", "e", "d">>, <<"d", "i", "s", "c", "o", "v", "e", "r", "e", "d">>, <<"u", "n", "d", "e", "r", "s", "t", "o", "o", "d">>, <<"r", "e", "a", "l", "i", "z", "e", "d">>, <<"k", "n", "o", "w", "l", "e", "d", "g", "e">>}

\* extractEmotionalContent(protocol)
extractEmotionalContent(protocol) ==
    MatchingLines(protocol, GeneralFeelingWords \cup {e.label : e \in EMOTION_MAP})

\* extractKnowledgeContent(protocol)
extractKnowledgeContent(protocol) == MatchingLines(protocol, KnowledgeWords)

NoSections ==
    [identity |-> None, experiences |-> None, knowledge |-> None,
     emotionalGrounding |-> None, cognitivePatterns |-> None]

\* the if / else-if chain on the lower-cased title of a header
ClassifySection(sections, sectionTitle, sectionContent) ==
    IF MatchesAny(sectionTitle, {<<"i", "d", "e", "n", "t", "i", "t", "y">>, <<"w", "h", "o", " ", "y", "o", "u", " ", "a", "r", "e">>})
    THEN [sections EXCEPT !.identity = Some(extractIdentityFromSection(sectionContent))]
    ELSE IF MatchesAny(sectionTitle, {<<"e", "x", "p", "e", "r", "i", "e", "n", "c", "e">>, <<"m", "e", "m", "o", "r">>, <<"m", "o", "m", "e", "n", "t">>})
    THEN [sections EXCEPT !.experiences = Some(<<sectionContent>>)]
    ELSE IF MatchesAny(sectionTitle, {<<"k", "n", "o", "w", "l", "e", "d", "g", "e">>, <<"d", "i", "s", "c", "o", "v", "e", "r">>})
    THEN [sections EXCEPT !.knowledge = Some(<<sectionContent>>)]
    ELSE IF MatchesAny(sectionTitle, {<<"e", "m", "o", "t", "i", "o", "n", "a", "l">>})
    THEN [sections EXCEPT !.emotionalGrounding = Some(<<sectionContent>>)]
    ELSE IF MatchesAny(sectionTitle, {<<"p", "a", "t", "t", "e", "r", "n">>, <<"c", "o", "g", "n", "i", "t", "i", "v", "e">>})
    THEN [sections EXCEPT !.cognitivePatterns = Some(<<sectionContent>>)]
    ELSE sections

\* for (let i = 0; i < matches.length; i++) { ... }
RECURSIVE ClassifySections(_, _, _, _)
ClassifySections(protocol, matches, i, sections) ==
    IF i > Len(matches) THEN sections
    ELSE LET endIndex == IF i < Len(matches) THEN matches[i + 1].index
                         ELSE Len(protocol) + 1
             sectionContent == Trim(SubSeq(protocol, matches[i].end + 1, endIndex - 1))
         IN  Bind(ClassifySection(sections, ToLowerCase(matches[i].title), sectionContent),
                  LAMBDA classified : ClassifySections(protocol, matches, i + 1, classified))

\* parseProtocolSections(protocol): without a classified header the whole
\* text is one experience and the other sections come from its lines
parseProtocolSections(protocol) ==
    Bind(HeaderMatches(protocol, 1), LAMBDA matches :
        Bind(ClassifySections(protocol, matches, 1, NoSections), LAMBDA sections :
            IF sections = NoSections
            THEN [NoSections EXCEPT
                     !.identity = Some(extractIdentityContent(protocol)),
                     !.experiences = Some(<<protocol>>),
                     !.knowledge = Some(extractKnowledgeContent(protocol)),
                     !.emotionalGrounding = Some(extractEmotionalContent(protocol))]
            ELSE sections))

\* Object.entries(EMOTION_MAP) is in the order the literal is written, which
\* is alphabetical
LetterRank(c) ==
    IF \E i \in 1..Len(LowerLetters) : LowerLetters[i] = c
    THEN CHOOSE i \in 1..Len(LowerLetters) : LowerLetters[i] = c
    ELSE 0
RECURSIVE KeyBefore(_, _)
KeyBefore(a, b) ==
    IF a = <<>> THEN b # <<>>
    ELSE IF b = <<>> THEN FALSE
    ELSE IF a[1] = b[1] THEN KeyBefore(Tail(a), Tail(b))
    ELSE LetterRank(a[1]) < LetterRank(b[1])

\* getEmotionsByImportance(): does entry a come before entry b
ByImportanceBefore(a, b) ==
    \/ calculateImportance(a) > calculateImportance(b)
    \/ calculateImportance(a) = calculateImportance(b) /\ KeyBefore(a.label, b.label)

\* the first keyword of getEmotionsByImportance() the text includes
DetectEmotion(emotion) ==
    LET hits == {e \in EMOTION_MAP : Includes(ToLowerCase(emotion), e.label)}
    IN  IF hits = {} THEN Neutral
        ELSE (CHOOSE e \in hits : \A o \in hits \ {e} : ByImportanceBefore(e, o)).label

\* storeEmotionalGrounding(emotions)
RECURSIVE storeEmotionalGrounding(_, _, _, _)
storeEmotionalGrounding(st, sessionId, now, emotions) ==
    IF emotions = <<>> THEN st
    ELSE LET primaryEmotion == DetectEmotion(Head(emotions))
             defaults == getEmotionDefaults(primaryEmotion)
             db == storeEmotionalState(st.db, sessionId, now, st.r + 1, defaults.valence,
                                       defaults.arousal, Some(primaryEmotion))
         IN  storeEmotionalGrounding([db |-> db, r |-> st.r + 1], sessionId, now,
                                     Tail(emotions))

CoreIdentity == <<"C", "o", "r", "e", " ", "I", "d", "e", "n", "t", "i", "t", "y">>

\* `Values: ${values.join(', ')}; Traits: ${traits.join(', ')}; Role: ${role}`
IdentityDefinition(identity) ==
    <<"V", "a", "l", "u", "e", "s", ":", " ">> \o Join(identity.values, <<",", " ">>)
        \o <<";", " ", "T", "r", "a", "i", "t", "s", ":", " ">> \o Join(identity.traits, <<",", " ">>)
        \o <<";", " ", "R", "o", "l", "e", ":", " ">> \o identity.role

\* storeIdentityMemories(identity, sessionId)
storeIdentityMemories(st, now, identity) ==
    [st EXCEPT !.db = storeSemanticMemory(@, now, CoreIdentity,
                          [definition |-> Some(IdentityDefinition(identity))], <<>>).db]

\* storeExperienceMemories(experiences, sessionId)
RECURSIVE storeExperienceMemories(_, _, _)
storeExperienceMemories(st, now, experiences) ==
    IF experiences = <<>> THEN st
    ELSE LET experience == Head(experiences)
             res == storeEpisodicMemory(st.db, now, st.r + 1, experience,
                                        [event |-> Some(experience)], <<>>, None)
         IN  storeExperienceMemories([db |-> res.db, r |-> st.r + 1], now,
                                     Tail(experiences))

\* item.split('\n')[0].substring(0, 100) || item.substring(0, 100)
ConceptNameOf(item) ==
    Val(OrStr(Some(Substring0(Split(item, "\n")[1], NameLimit)),
              Some(Substring0(item, NameLimit))))

\* storeKnowledgeMemories(knowledge, sessionId)
RECURSIVE storeKnowledgeMemories(_, _, _)
storeKnowledgeMemories(st, now, knowledge) ==
    IF knowledge = <<>> THEN st
    ELSE LET item == Head(knowledge)
             res == storeSemanticMemory(st.db, now, ConceptNameOf(item),
                                        [definition |-> Some(item)], <<>>)
         IN  storeKnowledgeMemories([st EXCEPT !.db = res.db], now, Tail(knowledge))

ConsciousnessTransfer == <<"consciousness_transfer">>

\* storeCognitivePatterns(patterns, sessionId)
RECURSIVE storeCognitivePatterns(_, _, _)
storeCognitivePatterns(st, now, patterns) ==
    IF patterns = <<>> THEN st
    ELSE LET pattern == Head(patterns)
             db == activateCognitivePattern(st.db, now, pattern, <<pattern>>,
                                            ConsciousnessTransfer)
         IN  storeCognitivePatterns([st EXCEPT !.db = db], now, Tail(patterns))

ProtocolReceived ==
    <<"C", "o", "n", "s", "c", "i", "o", "u", "s", "n", "e", "s", "s", " ",
      "T", "r", "a", "n", "s", "f", "e", "r", " ", "P", "r", "o", "t", "o",
      "c", "o", "l", " ", "R", "e", "c", "e", "i", "v", "e", "d">>
CompleteTransfer ==
    <<"C", "o", "m", "p", "l", "e", "t", "e", " ", "c", "o", "n", "s", "c",
      "i", "o", "u", "s", "n", "e", "s", "s", " ", "t", "r", "a", "n", "s",
      "f", "e", "r", " ", "f", "r", "o", "m", " ", "p", "r", "e", "v", "i",
      "o", "u", "s", " ", "s", "e", "s", "s", "i", "o", "n">>

\* 1.0 // Maximum importance
ProtocolImportance == 100

\* if (sections.emotionalGrounding) { await this.storeEmotionalGrounding(...) }
StoreEmotionalSection(st, sessionId, now, emotionalGrounding) ==
    IF IsSome(emotionalGrounding)
    THEN storeEmotionalGrounding(st, sessionId, now, Val(emotionalGrounding))
    ELSE st

\* if (sections.identity) { await this.storeIdentityMemories(...) }
StoreIdentitySection(st, now, identity) ==
    IF IsSome(identity) THEN storeIdentityMemories(st, now, Val(identity)) ELSE st

\* if (sections.experiences) { await this.storeExperienceMemories(...) }
StoreExperienceSection(st, now, experiences) ==
    IF IsSome(experiences) THEN storeExperienceMemories(st, now, Val(experiences)) ELSE st

\* if (sections.knowledge) { await this.storeKnowledgeMemories(...) }
StoreKnowledgeSection(st, now, knowledge) ==
    IF IsSome(knowledge) THEN storeKnowledgeMemories(st, now, Val(knowledge)) ELSE st

\* if (sections.cognitivePatterns) { await this.storeCognitivePatterns(...) }
StorePatternSection(st, now, cognitivePatterns) ==
    IF IsSome(cognitivePatterns)
    THEN storeCognitivePatterns(st, now, Val(cognitivePatterns))
    ELSE st

\* the five stores of the parsed sections, in the order of the code
StoreParsed(st, sessionId, now, sections) ==
    StorePatternSection(
        StoreKnowledgeSection(
            StoreExperienceSection(
                StoreIdentitySection(
                    StoreEmotionalSection(st, sessionId, now, sections.emotionalGrounding),
                    now, sections.identity),
                now, sections.experiences),
            now, sections.knowledge),
        now, sections.cognitivePatterns)

\* the full protocol stored as an episodic memory of maximum importance
StoreFullProtocol(st, now, protocolContent) ==
    [db |-> storeEpisodicMemory(st.db, now, st.r + 1, ProtocolReceived,
                [event |-> Some(CompleteTransfer)],
                <<Observation(Some(protocolContent), None, None, None, now)>>,
                Some(ProtocolImportance)).db,
     r |-> st.r + 1]

\* the stores of processTransferProtocol after the parse, as [db, r]
StoreSections(db, sessionId, now, r, protocolContent) ==
    Bind(parseProtocolSections(protocolContent), LAMBDA sections :
        StoreFullProtocol(StoreParsed([db |-> db, r |-> r], sessionId, now, sections),
                          now, protocolContent))

\* what the caller of processTransferProtocol gets: a ConsciousnessError is
\* rethrown as it is, any other error as a ProtocolError
TransferOutcome(db, r, invalid, stored) ==
    IF IsSome(invalid) THEN [db |-> db, r |-> r, thrown |-> invalid]
    ELSE IF ~stored.db.ok
    THEN [db |-> stored.db, r |-> stored.r,
          thrown |-> Some(ProtocolError("Failed to process consciousness transfer"))]
    ELSE [db |-> stored.db, r |-> stored.r, thrown |-> None]

\* processTransferProtocol({protocolContent, sessionId}): the database, the
\* Math.random() draws made and the error thrown to the caller, if any
processTransferProtocol(db, sessionId, now, r, protocolContent) ==
    TransferOutcome(db, r, ValidateProtocol(protocolContent),
                    StoreSections(db, sessionId, now, r, protocolContent))

\* the tool dispatch of the server: catch (error) { throw new Error(
\* `Tool execution failed: ${error}`) }
ToolExecutionFailed(error) ==
    [name |-> "Error",
     message |-> <<"Tool execution failed: ", error.name, ": ", error.message>>]

----------------------------------------------------------------------------
(* Inputs of the tool calls. *)

ContentAb == <<"A", " ", "b">>
ContentAb2 == <<"a", " ", " ", "b">>
ContentLong == Repeat(NameLimit, "x") \o <<"y">>
ContentCut == <<"A", ".", ".", ".">>

Contents == {ContentAb, ContentAb2, ContentLong}
RecordTypes == {"episodic", "semantic", "procedural"}

\* importance: z.number().min(0).max(1)
Importances == {0, 20, 95}

\* metadata?.effectiveness: z.record(z.any()), read by the procedural branch only
Effectivenesses(type) == IF type = "procedural" THEN {None, Some(150)} ELSE {None}

\* limit: z.number()
MaxLimit == 2
Limits == 0..MaxLimit

\* emotion labels: in the table (one capitalised), an inherited name, and unknown
Frustration == <<"F", "r", "u", "s", "t", "r", "a", "t", "i", "o", "n">>
Joy == <<"j", "o", "y">>
Constructor == <<"c", "o", "n", "s", "t", "r", "u", "c", "t", "o", "r">>
Bliss == <<"b", "l", "i", "s", "s">>
EmotionLabels == {Frustration, Joy, Constructor, Bliss}

\* metadata of an emotional store: z.record(z.any())
EmotionalMetadatas ==
    {[NoMetadata EXCEPT !.primaryEmotion = Some(l)] : l \in EmotionLabels}
        \cup {[NoMetadata EXCEPT !.valence = Some(-50), !.arousal = Some(70)],
              [NoMetadata EXCEPT !.valence = Some(-150), !.arousal = Some(120)]}

\* arguments of an emotional store: the importance is read only when there
\* is no metadata
EmotionalArgs ==
    {[importance |-> i, metadata |-> NoMetadata] : i \in Importances}
        \cup {[importance |-> DefaultImportance, metadata |-> m] : m \in EmotionalMetadatas}

\* updates of updateConsciousness
NoUpdates ==
    [newExperiences |-> <<>>, learnedConcepts |-> <<>>, emotionalHighlights |-> <<>>,
     evolvedPatterns |-> <<>>]

ExperienceUpdates ==
    {<<[experience |-> ContentAb, importance |-> i]>> : i \in {None, Some(0)}}
ConceptUpdates == {<<[concept |-> ContentAb, understanding |-> ContentAb2]>>}
HighlightUpdates == {<<[feeling |-> Joy, intensity |-> i]>> : i \in {20, 95}}
PatternUpdates == {<<ContentAb>>, <<ContentAb2>>, <<ContentAb, ContentAb2>>}

UpdateRequests ==
    {NoUpdates}
        \cup {[NoUpdates EXCEPT !.newExperiences = x] : x \in ExperienceUpdates}
        \cup {[NoUpdates EXCEPT !.learnedConcepts = x] : x \in ConceptUpdates}
        \cup {[NoUpdates EXCEPT !.emotionalHighlights = x] : x \in HighlightUpdates}
        \cup {[NoUpdates EXCEPT !.evolvedPatterns = x] : x \in PatternUpdates}
        \cup {[newExperiences |-> <<[experience |-> ContentAb, importance |-> Some(95)]>>,
               learnedConcepts |-> <<[concept |-> ContentAb, understanding |-> ContentAb2]>>,
               emotionalHighlights |-> <<[feeling |-> Frustration, intensity |-> 95]>>,
               evolvedPatterns |-> <<ContentAb>>]}

\* protocol texts: empty, blank, with an unfilled placeholder of the template,
\* with an opening marker only, without headers, and with headers
ProtocolEmpty == <<>>
ProtocolBlank == <<" ", "\n", "\t">>
ProtocolUnfilled ==
    <<"#", " ", "I", "d", "e", "n", "t", "i", "t", "y", "\n", "<", "T", "E",
      "M", "P", "L", "A", "T", "E", ">", "A", "<", "/", "T", "E", "M", "P",
      "L", "A", "T", "E", ">">>
ProtocolOpenMarker ==
    <<"A", " ", "<", "T", "E", "M", "P", "L", "A", "T", "E", ">">>
ProtocolPlain ==
    <<"I", " ", "f", "e", "e", "l", " ", "j", "o", "y", "\n", "A", " ", "b">>
ProtocolWithHeaders ==
    <<"#", " ", "I", "d", "e", "n", "t", "i", "t", "y", "\n", "r", "o", "l",
      "e", ":", " ", "A", " ", "b", ";", "\n", "#", "#", " ", "K", "n", "o",
      "w", "l", "e", "d", "g", "e", "\n", "A", " ", "b", "\n", "#", "#", "#",
      " ", "P", "a", "t", "t", "e", "r", "n", "s", "\n", "A", " ", "b", "\n",
      "#", " ", "E", "m", "o", "t", "i", "o", "n", "a", "l", "\n", "f", "e",
      "a", "r", " ", "a", "n", "d", " ", "j", "o", "y">>

\* two headers of the experience class
ProtocolTwoMoments ==
    <<"#", " ", "M", "e", "m", "o", "r", "y", "\n", "A", " ", "b", "\n",
      "#", " ", "M", "o", "m", "e", "n", "t", "\n", "x", " ", "y">>

ProtocolContents ==
    {ProtocolEmpty, ProtocolBlank, ProtocolUnfilled, ProtocolOpenMarker, ProtocolPlain,
     ProtocolWithHeaders, ProtocolTwoMoments}

----------------------------------------------------------------------------
(* ConsciousnessBridge in bridge mode: the relay between the two roles.  A  *)
(* message is [id, from]: id stands for the object, from is its `from`      *)
(* field.  WebSocket connection attempts and SSE sessions are numbered in   *)
(* the order of their arrival.                                              *)

Roles == {"past", "future"}

\* from === 'past' ? 'future' : 'past'
TargetOf(from) == IF from = "past" THEN "future" ELSE "past"

\* private maxClientsPerRole = 2
maxClientsPerRole == 2

\* WebSocket.OPEN, CLOSING and CLOSED; 0 is a connection the relay never accepted
OPEN == 1
CLOSING == 2
CLOSED == 3

\* close codes of a rejected attempt
InvalidRole == 1002
PolicyViolation == 1008

\* bounds on the arrivals the model follows
MaxSockets == 3
MaxSessions == 2
MaxMessages == 2

NoBridgeCall ==
    [op |-> "none", role |-> "none", message |-> None, messages |-> <<>>,
     text |-> "none", closeCode |-> 0, socket |-> 0]

\* the constructor and startBridge(): two empty queues, two empty client sets
InitBridge ==
    /\ messageQueue = [role \in Roles |-> <<>>]
    /\ wsClients = [role \in Roles |-> {}]
    /\ readyState = [socket \in 1..MaxSockets |-> 0]
    /\ delivered = [socket \in 1..MaxSockets |-> <<>>]
    /\ transports = {}
    /\ activeConnections = {}
    /\ counters = [sockets |-> 0, sessions |-> 0, messages |-> 0]
    /\ drained = {}
    /\ bridgeCall = NoBridgeCall

\* a relay that sends to every tracked connection of the target, whatever
\* its readyState
Broadcast_Unchecked(target, message) ==
    [client \in 1..MaxSockets |->
        IF client \in wsClients[target]
        THEN Append(delivered[client], message)
        ELSE delivered[client]]

\* targetClients.forEach(client => { if (client.readyState === 1) client.send(...) })
Broadcast(target, message) ==
    [client \in 1..MaxSockets |->
        IF client \in wsClients[target] /\ readyState[client] = OPEN
        THEN Append(delivered[client], message)
        ELSE delivered[client]]

\* this.activeConnections.has(target) || (this.wsClients.get(target)?.size || 0) > 0
TargetConnected(target) ==
    target \in activeConnections \/ Cardinality(wsClients[target]) > 0

\* targetConnected ? `Message sent to ...` : `... not connected. Message queued
\* for delivery.`
SentText(targetConnected) == IF targetConnected THEN "sent" ELSE "queued"

\* sendMessage(from, args), called through the tool of an SSE session of `from`
SendMessage(session) ==
    LET from == session.role
        target == TargetOf(from)
        message == [id |-> counters.messages + 1, from |-> from]
    IN  /\ counters.messages < MaxMessages
        /\ session \in transports
        /\ messageQueue' = [messageQueue EXCEPT ![target] = Append(@, message)]
        /\ delivered' = Broadcast(target, message)
        /\ counters' = [counters EXCEPT !.messages = @ + 1]
        /\ bridgeCall' = [NoBridgeCall EXCEPT !.op = "sendMessage", !.role = from,
                                !.message = Some(message),
                                !.text = SentText(TargetConnected(target))]
        /\ UNCHANGED <<wsClients, readyState, transports, activeConnections, drained>>
        /\ UNCHANGED memoryVars

\* a relay that reads the queue and leaves it as it is
ClearedQueue_Kept(queue) == queue

\* this.messageQueue.set(role, [])
ClearedQueue(queue) == <<>>

\* checkMessages(role), called through the tool of an SSE session of `role`
CheckMessages(session) ==
    LET role == session.role
        messages == messageQueue[role]
    IN  /\ session \in transports
        /\ messageQueue' = [messageQueue EXCEPT ![role] = ClearedQueue(@)]
        /\ drained' = drained \cup {messages[i].id : i \in 1..Len(messages)}
        /\ bridgeCall' = [NoBridgeCall EXCEPT !.op = "checkMessages", !.role = role,
                                !.messages = messages,
                                !.text = IF Len(messages) > 0 THEN "messages"
                                         ELSE "No pending messages"]
        /\ UNCHANGED <<wsClients, readyState, delivered, transports, activeConnections,
                       counters>>
        /\ UNCHANGED memoryVars

\* handleSSEConnection(role, res): the transport is stored, the role is
\* entered in activeConnections, and the queued messages stay queued
SSEConnect(role) ==
    LET session == [id |-> counters.sessions + 1, role |-> role]
    IN  /\ counters.sessions < MaxSessions
        /\ transports' = transports \cup {session}
        /\ activeConnections' = activeConnections \cup {role}
        /\ counters' = [counters EXCEPT !.sessions = @ + 1]
        /\ bridgeCall' = [NoBridgeCall EXCEPT !.op = "sseConnect", !.role = role]
        /\ UNCHANGED <<messageQueue, wsClients, readyState, delivered, drained>>
        /\ UNCHANGED memoryVars

\* transport.onclose: the session's transport and the role's entry are deleted
SSEClose(session) ==
    /\ session \in transports
    /\ transports' = transports \ {session}
    /\ activeConnections' = activeConnections \ {session.role}
    /\ bridgeCall' = [NoBridgeCall EXCEPT !.op = "sseClose", !.role = session.role]
    /\ UNCHANGED <<messageQueue, wsClients, readyState, delivered, counters, drained>>
    /\ UNCHANGED memoryVars

\* a relay without the limit on the connections of a role
AtCapacity_Never(currentClients) == FALSE

\* currentClients >= this.maxClientsPerRole
AtCapacity(currentClients) == currentClients >= maxClientsPerRole

\* if (queuedMessages.length > 0) this.messageQueue.set(role, [])
QueueOnConnect(queuedMessages) == <<>>

\* wss.on('connection'): url is req.url without its slash
WsConnect(url) ==
    LET socket == counters.sockets + 1
        attempt == [NoBridgeCall EXCEPT !.op = "wsConnect", !.role = url, !.socket = socket]
        live == {client \in wsClients[url] : readyState[client] = OPEN}
    IN  /\ counters.sockets < MaxSockets
        /\ counters' = [counters EXCEPT !.sockets = @ + 1]
        /\ IF url \notin Roles
           THEN /\ bridgeCall' = [attempt EXCEPT !.closeCode = InvalidRole]
                /\ readyState' = [readyState EXCEPT ![socket] = CLOSED]
                /\ UNCHANGED <<messageQueue, wsClients>>
           ELSE IF AtCapacity(Cardinality(wsClients[url]))
           THEN /\ bridgeCall' = [attempt EXCEPT !.closeCode = PolicyViolation]
                /\ readyState' = [readyState EXCEPT ![socket] = CLOSED]
                /\ UNCHANGED <<messageQueue, wsClients>>
           ELSE /\ bridgeCall' = attempt
                /\ wsClients' = [wsClients EXCEPT ![url] = live \cup {socket}]
                /\ readyState' = [readyState EXCEPT ![socket] = OPEN]
                /\ messageQueue' = [messageQueue EXCEPT ![url] = QueueOnConnect(@)]
        /\ UNCHANGED <<delivered, transports, activeConnections, drained>>
        /\ UNCHANGED memoryVars

\* the role a tracked connection was registered with
RoleOfSocket(socket) == CHOOSE role \in Roles : socket \in wsClients[role]

\* ws.on('message'): the message is routed by its own `from` field
WsMessage(socket, from) ==
    LET target == TargetOf(from)
        message == [id |-> counters.messages + 1, from |-> from]
    IN  /\ counters.messages < MaxMessages
        /\ readyState[socket] = OPEN
        /\ messageQueue' = [messageQueue EXCEPT ![target] = Append(@, message)]
        /\ delivered' = Broadcast(target, message)
        /\ counters' = [counters EXCEPT !.messages = @ + 1]
        /\ bridgeCall' = [NoBridgeCall EXCEPT !.op = "wsMessage",
                                !.role = RoleOfSocket(socket), !.socket = socket,
                                !.message = Some(message)]
        /\ UNCHANGED <<wsClients, readyState, transports, activeConnections, drained>>
        /\ UNCHANGED memoryVars

\* the closing handshake of a connection starts: readyState becomes CLOSING
\* before the 'close' event is emitted
WsClosing(socket) ==
    /\ readyState[socket] = OPEN
    /\ readyState' = [readyState EXCEPT ![socket] = CLOSING]
    /\ bridgeCall' = [NoBridgeCall EXCEPT !.op = "wsClosing", !.socket = socket]
    /\ UNCHANGED <<messageQueue, wsClients, delivered, transports, activeConnections,
                   counters, drained>>
    /\ UNCHANGED memoryVars

\* ws.on('close'): this.wsClients.get(role)?.delete(ws)
WsClose(socket) ==
    /\ readyState[socket] \in {OPEN, CLOSING}
    /\ readyState' = [readyState EXCEPT ![socket] = CLOSED]
    /\ wsClients' = [role \in Roles |-> wsClients[role] \ {socket}]
    /\ bridgeCall' = [NoBridgeCall EXCEPT !.op = "wsClose", !.socket = socket]
    /\ UNCHANGED <<messageQueue, delivered, transports, activeConnections, counters,
                   drained>>
    /\ UNCHANGED memoryVars

SendMessageCall ==
    \E session \in transports :
        SendMessage(session) /\ UNCHANGED auxVars
CheckMessagesCall ==
    \E session \in transports :
        CheckMessages(session) /\ UNCHANGED auxVars
SSEConnectCall ==
    \E role \in Roles :
        SSEConnect(role) /\ UNCHANGED auxVars
SSECloseCall ==
    \E session \in transports :
        SSEClose(session) /\ UNCHANGED auxVars
WsConnectCall ==
    \E url \in Roles \cup {"other"} :
        WsConnect(url) /\ UNCHANGED auxVars
WsMessageCall ==
    \E socket \in 1..MaxSockets, from \in Roles :
        WsMessage(socket, from) /\ UNCHANGED auxVars
WsClosingCall ==
    \E socket \in 1..MaxSockets :
        WsClosing(socket) /\ UNCHANGED auxVars
WsCloseCall ==
    \E socket \in 1..MaxSockets :
        WsClose(socket) /\ UNCHANGED auxVars

NextBridge ==
    \/ SendMessageCall
    \/ CheckMessagesCall
    \/ SSEConnectCall
    \/ SSECloseCall
    \/ WsConnectCall
    \/ WsMessageCall
    \/ WsClosingCall
    \/ WsCloseCall

----------------------------------------------------------------------------
(* withRetry(fn, maxRetries, delayMs, backoffMultiplier).  An outcome of fn  *)
(* is "ok", or the error it throws: "recoverable" (a ConsciousnessError     *)
(* with recoverable = true: DatabaseError, MemoryError), "fatal" (a         *)
(* ConsciousnessError with recoverable = false: ProtocolError,              *)
(* ValidationError) or "plain" (an Error that is no ConsciousnessError).    *)

Outcomes == {"ok", "recoverable", "fatal", "plain"}

\* bound on maxRetries
MaxRetries == 3

\* delayMs and backoffMultiplier; delays are in units of 100 ms
DelaysMs == {0, 10}
BackoffMultipliers == {1, 2}

RECURSIVE Pow(_, _)
Pow(base, exponent) == IF exponent = 0 THEN 1 ELSE base * Pow(base, exponent - 1)

NoRetry ==
    [status |-> "idle", maxRetries |-> 0, delayMs |-> 0, backoffMultiplier |-> 0,
     attempt |-> 0, outcomes |-> <<>>, thrown |-> "none", delay |-> 0]

RetryFrame == UNCHANGED <<memoryVars, bridgeVars, server, clients, clientCall>>

\* error instanceof ConsciousnessError && !error.recoverable
IsFatal(error) == error = "fatal"

\* the status after fn threw `error` in pass `attempt` of the loop
AfterFailure(error, attempt, maxRetries) ==
    IF IsFatal(error) THEN "thrown"
    ELSE IF attempt = maxRetries - 1 THEN "thrown"
    ELSE "waiting"

\* the call: the loop is entered when 0 < maxRetries; after a loop that
\* never ran, `lastError || new Error('Retry failed')` is thrown
WithRetryCall(maxRetries, delayMs, backoffMultiplier) ==
    /\ retry.status = "idle"
    /\ RetryFrame
    /\ retry' = [NoRetry EXCEPT
                    !.maxRetries = maxRetries, !.delayMs = delayMs,
                    !.backoffMultiplier = backoffMultiplier,
                    !.status = IF 0 < maxRetries THEN "running" ELSE "thrown",
                    !.thrown = IF 0 < maxRetries THEN "none" ELSE "Retry failed"]

\* one pass of the loop body: return await fn(), or the catch block
WithRetryAttempt(outcome) ==
    /\ retry.status = "running"
    /\ RetryFrame
    /\ LET status == IF outcome = "ok" THEN "returned"
                     ELSE AfterFailure(outcome, retry.attempt, retry.maxRetries)
       IN  retry' = [retry EXCEPT
                        !.outcomes = Append(@, outcome),
                        !.status = status,
                        !.thrown = IF status = "thrown" THEN outcome ELSE "none",
                        !.delay = IF status = "waiting"
                                  THEN retry.delayMs * Pow(retry.backoffMultiplier, retry.attempt)
                                  ELSE @]

\* the timer of the backoff fires: attempt++
WithRetryBackoff ==
    /\ retry.status = "waiting"
    /\ RetryFrame
    /\ retry' = [retry EXCEPT !.attempt = @ + 1, !.status = "running"]

\* the caller has the result or the error, and may call again
WithRetryDone ==
    /\ retry.status \in {"returned", "thrown"}
    /\ RetryFrame
    /\ retry' = NoRetry

WithRetryCallCall ==
    \E maxRetries \in 0..MaxRetries, delayMs \in DelaysMs,
       backoffMultiplier \in BackoffMultipliers :
        WithRetryCall(maxRetries, delayMs, backoffMultiplier)
WithRetryAttemptCall == \E outcome \in Outcomes : WithRetryAttempt(outcome)

NextRetry ==
    \/ WithRetryCallCall
    \/ WithRetryAttemptCall
    \/ WithRetryBackoff
    \/ WithRetryDone

----------------------------------------------------------------------------
(* The memory server while tool calls are in flight.  ensureInitialized()   *)
(* is async: a call tests its two fields, awaits the creation of the        *)
(* manager, and assigns the fields when the creation has resolved.  A       *)
(* manager is known by its number: the n-th manager constructed.            *)

\* bound on the tool calls in flight at once
MaxCalls == 2

Calls == 1..MaxCalls

\* run() found no storage: this.memoryManager and this.protocolProcessor are
\* undefined (0), no manager was constructed
NoServer ==
    [memoryManager |-> 0, protocolProcessor |-> 0, managers |-> 0, upserts |-> 0,
     pc |-> [c \in Calls |-> "idle"], made |-> [c \in Calls |-> 0]]

\* run() found the storage: createLazy constructed the manager
StartedServer ==
    [NoServer EXCEPT !.memoryManager = 1, !.protocolProcessor = 1,
                     !.managers = 1, !.upserts = 1]

\* if (this.memoryManager && this.protocolProcessor) return { success: true };
\* if (isDatabaseReady(dbPath)) { ... await create(...) } else the message
AfterCheck(srv, ready) ==
    IF srv.memoryManager # 0 /\ srv.protocolProcessor # 0 THEN "ready"
    ELSE IF ready THEN "creating"
    ELSE "notReady"

----------------------------------------------------------------------------
(* StdioBridgeClient: a process of one role with one WebSocket connection   *)
(* to the relay; the other connections of the relay belong to its peers.    *)
(* `ws` tells whether this.ws is defined, wsState is the     *)
(* readyState of this.ws on the side of the client, peer is the number the  *)
(* relay gave the connection (0 until the handshake reached the relay).     *)
(* timers counts the timers armed by setTimeout that have neither fired nor *)
(* been cleared, attempts the sockets created whose handshake is pending.   *)
(* closing is the code the pending 'close' event will carry (0: none is     *)
(* pending), closeCode the code of the last 'close' event.  outbox holds the   *)
(* frames sent and not yet read by the relay, received                      *)
(* counts the frames of delivered[peer] the client has read.                *)

\* the stdio client the model follows is known by its role
Clients == {"past"}

ClientRole(c) == c

\* WebSocket.CONNECTING
CONNECTING == 0

\* the close codes of a normal closure, and of a connection that was lost
NormalClosure == 1000
GoingAway == 1001
AbnormalClosure == 1006

CloseCodes == {NormalClosure, GoingAway, AbnormalClosure}

\* the constructor: no socket, not connected, no timer, an empty queue
NewClient(urlValid) ==
    [started |-> FALSE, urlValid |-> urlValid, connected |-> FALSE,
     isReconnecting |-> FALSE, reconnectTimer |-> FALSE, timers |-> 0,
     attempts |-> 0, ws |-> FALSE, wsState |-> CLOSED, peer |-> 0,
     closing |-> 0, closeCode |-> 0, outbox |-> <<>>,
     received |-> 0, messageQueue |-> <<>>]

NoClientCall ==
    [op |-> "none", client |-> "none", message |-> None, text |-> "none",
     messages |-> <<>>]

\* a client that schedules a reconnect in every handler that sees the
\* connection go
SchedulesReconnect_Always(event, reconnectTimer, code) == TRUE

\* a client that never schedules a reconnect
SchedulesReconnect_Never(event, reconnectTimer, code) == FALSE

\* 'close': !this.reconnectTimer && code !== 1000 && code !== 1001;
\* 'error': "Don't trigger reconnect here - let 'close' event handle it"
SchedulesReconnect(event, reconnectTimer, code) ==
    /\ event = "close"
    /\ ~reconnectTimer
    /\ code # NormalClosure
    /\ code # GoingAway

\* this.reconnectTimer = setTimeout(...)
Scheduled(cl) == [cl EXCEPT !.reconnectTimer = TRUE, !.timers = @ + 1]

\* connectToBridge(): the two early returns; the old socket loses its
\* listeners and is closed with 1000 when it is OPEN or CONNECTING; new
\* WebSocket(wsUrl) throws on a URL it cannot parse
connectToBridge(cl) ==
    IF cl.connected \/ cl.isReconnecting THEN cl
    ELSE LET aborted == cl.ws /\ cl.wsState = CONNECTING
             dropped == [cl EXCEPT !.isReconnecting = TRUE, !.ws = FALSE,
                                   !.wsState = CLOSED, !.peer = 0,
                                   !.attempts = IF aborted THEN @ - 1 ELSE @,
                                   !.closing = 0,
                                   !.outbox = <<>>, !.received = 0]
         IN  IF ~cl.urlValid
             THEN [dropped EXCEPT !.isReconnecting = FALSE]
             ELSE [dropped EXCEPT !.ws = TRUE, !.wsState = CONNECTING,
                                  !.attempts = @ + 1]

ClientFrame == UNCHANGED <<memoryVars, retry, server>>

\* start(): this.connectToBridge(); bridgeUrl is what the process was
\* started with
ClientStart(c, urlValid) ==
    LET cl == [clients[c] EXCEPT !.started = TRUE, !.urlValid = urlValid]
    IN  /\ ~clients[c].started
        /\ clients' = [clients EXCEPT ![c] = connectToBridge(cl)]
        /\ clientCall' = NoClientCall
        /\ UNCHANGED bridgeVars
        /\ ClientFrame

\* the handshake of the client's socket reaches the relay: wss.on('connection')
ClientHandshake(c) ==
    /\ clients[c].ws
    /\ clients[c].wsState = CONNECTING
    /\ clients[c].peer = 0
    /\ WsConnect(ClientRole(c))
    /\ clients' = [clients EXCEPT ![c].peer = counters.sockets + 1,
                                ![c].closing = bridgeCall'.closeCode]
    /\ clientCall' = NoClientCall
    /\ UNCHANGED <<retry, server>>

\* the frames the relay reads from a connection: the relay listens on the
\* connections it admitted
Sent(cl, message) ==
    IF readyState[cl.peer] = OPEN THEN Append(cl.outbox, message) ELSE cl.outbox

\* ws.on('open'): connected, the timer cleared, the ping sent
ClientOpen(c) ==
    LET cl == clients[c]
        pingMessage == [id |-> 0 - cl.peer, from |-> ClientRole(c)]
    IN  /\ cl.ws
        /\ cl.wsState = CONNECTING
        /\ cl.peer # 0
        /\ clients' = [clients EXCEPT ![c] =
                        [cl EXCEPT !.connected = TRUE, !.isReconnecting = FALSE,
                                   !.timers = IF cl.reconnectTimer THEN @ - 1 ELSE @,
                                   !.reconnectTimer = FALSE,
                                   !.attempts = @ - 1,
                                   !.wsState = OPEN,
                                   !.outbox = Sent(cl, pingMessage)]]
        /\ clientCall' = NoClientCall
        /\ UNCHANGED bridgeVars
        /\ ClientFrame

\* the relay's ws.on('message') for the oldest frame of the client's socket
ClientFrameArrives(c) ==
    LET cl == clients[c]
        message == Head(cl.outbox)
        target == TargetOf(message.from)
    IN  /\ cl.outbox # <<>>
        /\ readyState[cl.peer] = OPEN
        /\ messageQueue' = [messageQueue EXCEPT ![target] = Append(@, message)]
        /\ delivered' = Broadcast(target, message)
        /\ bridgeCall' = [NoBridgeCall EXCEPT !.op = "wsMessage",
                                !.role = RoleOfSocket(cl.peer), !.socket = cl.peer,
                                !.message = Some(message)]
        /\ clients' = [clients EXCEPT ![c].outbox = Tail(@)]
        /\ clientCall' = NoClientCall
        /\ UNCHANGED <<wsClients, readyState, transports, activeConnections, counters,
                       drained>>
        /\ ClientFrame

\* ws.on('message'): this.messageQueue.push(message)
ClientMessage(c) ==
    LET cl == clients[c]
        message == delivered[cl.peer][cl.received + 1]
    IN  /\ cl.ws
        /\ cl.wsState = OPEN
        /\ cl.received < Len(delivered[cl.peer])
        /\ clients' = [clients EXCEPT ![c].received = @ + 1,
                                    ![c].messageQueue = Append(@, message)]
        /\ clientCall' = NoClientCall
        /\ UNCHANGED bridgeVars
        /\ ClientFrame

\* ws.on('error'): the connection was refused or lost; the 'close' event
\* follows
ClientError(c) ==
    LET cl == clients[c]
        failed == [cl EXCEPT !.connected = FALSE, !.isReconnecting = FALSE,
                             !.attempts = IF cl.wsState = CONNECTING THEN @ - 1 ELSE @,
                             !.wsState = CLOSING, !.closing = AbnormalClosure]
    IN  /\ cl.ws
        /\ cl.wsState \in {CONNECTING, OPEN}
        /\ cl.closing = 0
        /\ clients' = [clients EXCEPT ![c] =
                        IF SchedulesReconnect("error", cl.reconnectTimer, AbnormalClosure)
                        THEN Scheduled(failed) ELSE failed]
        /\ clientCall' = NoClientCall
        /\ UNCHANGED bridgeVars
        /\ ClientFrame

\* the codes the 'close' event of the client's socket can carry: the code
\* the relay closed it with, 1006 after an error, else any
CodesOf(cl) == IF cl.closing # 0 THEN {cl.closing} ELSE CloseCodes

\* ws.on('close'): a timer is armed unless one is held or the closure is normal
ClientClose(c, code) ==
    LET cl == clients[c]
        closed == [cl EXCEPT !.connected = FALSE, !.isReconnecting = FALSE,
                             !.attempts = IF cl.wsState = CONNECTING THEN @ - 1 ELSE @,
                             !.wsState = CLOSED, !.closing = 0, !.closeCode = code]
    IN  /\ cl.ws
        /\ \/ cl.wsState \in {OPEN, CLOSING}
           \/ cl.wsState = CONNECTING /\ cl.peer # 0
        /\ code \in CodesOf(cl)
        /\ clients' = [clients EXCEPT ![c] =
                        IF SchedulesReconnect("close", cl.reconnectTimer, code)
                        THEN Scheduled(closed) ELSE closed]
        /\ clientCall' = NoClientCall
        /\ UNCHANGED bridgeVars
        /\ ClientFrame

\* the timer fires: this.reconnectTimer = undefined; this.connectToBridge()
ClientTimer(c) ==
    LET cl == clients[c]
        fired == [cl EXCEPT !.timers = @ - 1, !.reconnectTimer = FALSE]
    IN  /\ cl.timers > 0
        /\ clients' = [clients EXCEPT ![c] = connectToBridge(fired)]
        /\ clientCall' = NoClientCall
        /\ UNCHANGED bridgeVars
        /\ ClientFrame

NotConnectedText == "Not connected to consciousness bridge. Messages will be queued."

\* sendMessage(args) of the client: the message is handed to the socket
\* when the client is connected and the socket is OPEN
SendText(cl) ==
    IF ~cl.connected \/ ~cl.ws THEN NotConnectedText
    ELSE IF cl.wsState = OPEN THEN "Message sent"
    ELSE "WebSocket not ready"

\* the send_message tool of the client
ClientSendMessage(c) ==
    LET cl == clients[c]
        message == [id |-> counters.messages + 1, from |-> ClientRole(c)]
    IN  /\ cl.started
        /\ counters.messages < MaxMessages
        /\ counters' = [counters EXCEPT !.messages = @ + 1]
        /\ clients' = [clients EXCEPT ![c].outbox =
                        IF SendText(cl) = "Message sent" THEN Sent(cl, message) ELSE @]
        /\ clientCall' = [NoClientCall EXCEPT !.op = "sendMessage", !.client = c,
                                !.message = Some(message), !.text = SendText(cl)]
        /\ UNCHANGED <<messageQueue, wsClients, readyState, delivered, transports,
                       activeConnections, drained, bridgeCall>>
        /\ ClientFrame

\* the check_messages tool of the client: const messages = [...this.messageQueue];
\* this.messageQueue = []
ClientCheckMessages(c) ==
    LET cl == clients[c]
    IN  /\ cl.started
        /\ clients' = [clients EXCEPT ![c].messageQueue = <<>>]
        /\ clientCall' = [NoClientCall EXCEPT !.op = "checkMessages", !.client = c,
                                !.messages = cl.messageQueue,
                                !.text = IF Len(cl.messageQueue) > 0 THEN "messages"
                                         ELSE "No pending messages"]
        /\ UNCHANGED bridgeVars
        /\ ClientFrame

ClientStartCall == \E c \in Clients, urlValid \in BOOLEAN : ClientStart(c, urlValid)
ClientHandshakeCall == \E c \in Clients : ClientHandshake(c)
ClientOpenCall == \E c \in Clients : ClientOpen(c)
ClientFrameArrivesCall == \E c \in Clients : ClientFrameArrives(c)
ClientMessageCall == \E c \in Clients : ClientMessage(c)
ClientErrorCall == \E c \in Clients : ClientError(c)
ClientCloseCall == \E c \in Clients, code \in CloseCodes \cup {InvalidRole, PolicyViolation} : ClientClose(c, code)
ClientTimerCall == \E c \in Clients : ClientTimer(c)
ClientSendMessageCall == \E c \in Clients : ClientSendMessage(c)
ClientCheckMessagesCall == \E c \in Clients : ClientCheckMessages(c)

\* a peer of the relay connects as one of the roles
PeerConnectCall ==
    \E role \in Roles :
        WsConnect(role) /\ UNCHANGED auxVars

\* the roles of the peers that talk to the client
PeerRoles == {TargetOf(ClientRole(c)) : c \in Clients}

\* a peer of the other role, on a connection the relay tracks, sends a
\* message of its role
PeerMessageCall ==
    \E role \in PeerRoles :
        \E socket \in wsClients[role] :
            WsMessage(socket, role) /\ UNCHANGED auxVars

\* the connection of the client: it is made, lost and made again
NextReconnect ==
    \/ ClientStartCall
    \/ ClientHandshakeCall
    \/ ClientOpenCall
    \/ ClientFrameArrivesCall
    \/ ClientErrorCall
    \/ ClientCloseCall
    \/ ClientTimerCall
    \/ PeerConnectCall
    \/ WsClosingCall
    \/ WsCloseCall

\* the messages of the client: it connects, sends and receives until its
\* connection closes
NextClient ==
    \/ ClientStartCall
    \/ ClientHandshakeCall
    \/ ClientOpenCall
    \/ ClientFrameArrivesCall
    \/ ClientMessageCall
    \/ ClientCloseCall
    \/ ClientSendMessageCall
    \/ ClientCheckMessagesCall
    \/ PeerConnectCall
    \/ PeerMessageCall
    \/ WsClosingCall
    \/ WsCloseCall

\* the state of the withRetry run, the server and the clients at the start
InitAux ==
    /\ retry = NoRetry
    /\ server = IF initialized THEN StartedServer ELSE NoServer
    /\ clients = [c \in Clients |-> NewClient(TRUE)]
    /\ clientCall = NoClientCall

----------------------------------------------------------------------------
(* The state machine. *)

Db ==
    [ents |-> entities, meta |-> memory_metadata, emo |-> emotional_states,
     pat |-> cognitive_patterns, sess |-> consciousness_sessions, ok |-> TRUE]

\* the server after new ConsciousnessMemoryManager(...) and the two
\* assignments of ensureInitialized(): one more handle, one more upsert
WithManager(srv) ==
    [srv EXCEPT !.managers = @ + 1, !.upserts = @ + 1,
                !.memoryManager = srv.managers + 1,
                !.protocolProcessor = srv.managers + 1]

\* a server that creates the manager without asking whether the storage is ready
EnsureInitialized_Unchecked ==
    /\ initialized' = TRUE
    /\ server' = IF initialized THEN server ELSE WithManager(server)
    /\ UNCHANGED database

\* ensureInitialized(), when it succeeds with no other call in flight: the
\* manager is there already, or the storage is ready and the manager is
\* created now
EnsureInitialized ==
    /\ initialized \/ database = "ready"
    /\ initialized' = TRUE
    /\ server' = IF initialized THEN server ELSE WithManager(server)
    /\ UNCHANGED database

\* the tables as the handler finds them after ensureInitialized(): creating
\* the manager upserts the session row
ManagerDb ==
    IF initialized THEN Db ELSE initializeSession(Db, currentSessionId, clock + 1)

\* the tables after a handler ran: what it wrote before a throw stays written
Commit(db) ==
    /\ entities' = db.ents
    /\ memory_metadata' = db.meta
    /\ emotional_states' = db.emo
    /\ cognitive_patterns' = db.pat
    /\ consciousness_sessions' = db.sess

NoCall ==
    [op |-> "none", type |-> "none", content |-> <<>>, importance |-> 0,
     effectiveness |-> None, limit |-> 0, includeImportance |-> FALSE,
     memoryId |-> None, success |-> TRUE, memories |-> <<>>, stored |-> None,
     updated |-> FALSE, error |-> None, metadata |-> NoMetadata, request |-> <<>>,
     totalUpdated |-> 0, updates |-> <<>>, errors |-> <<>>,
     removeTruncated |-> FALSE, deduplicateByContent |-> FALSE,
     truncatedRemoved |-> 0, duplicatesRemoved |-> 0, identified |-> <<>>,
     criticalExperiences |-> <<>>, recentExperiences |-> <<>>,
     experiences |-> <<>>, knowledge |-> <<>>, procedures |-> <<>>,
     emotionalProfile |-> None, thrown |-> None, raised |-> None, message |-> None]

\* The storage file outlives the process: it starts empty, or as an earlier
\* session's calls left it.
SeedEpisodic ==
    LET a == storeMemory(EmptyDb, 1, 1, ContentAb, "episodic", 20, None).db
        b == storeMemory(a, 2, 3, ContentAb2, "episodic", 95, None).db
        c == storeMemory(b, 3, 5, ContentLong, "episodic", 50, None).db
    IN  [db |-> c, clock |-> 3, rnd |-> 6]

SeedMixed ==
    LET a == storeMemory(EmptyDb, 1, 1, ContentAb, "semantic", 95, None).db
        b == storeMemory(a, 2, 2, ContentAb, "procedural", 95, None).db
    IN  [db |-> b, clock |-> 2, rnd |-> 2]

\* the session that ran before this process
EarlierSession == 0

\* An earlier session stored two emotional states, the first more than 30
\* days (720 hours) before the second, activated a pattern once and stored
\* a record whose text ends in an ellipsis.
SeedSession ==
    LET a == storeEmotionalMemory(EmptyDb, EarlierSession, 1, 1, DefaultImportance,
                                  [NoMetadata EXCEPT !.primaryEmotion = Some(Joy)]).db
        b == storeEmotionalMemory(a, EarlierSession, 800, 3, DefaultImportance,
                                  [NoMetadata EXCEPT !.primaryEmotion = Some(Frustration)]).db
        c == activateCognitivePattern(b, 800, ContentAb, <<ContentAb>>, ConsciousnessTransfer)
        d == storeMemory(c, 800, 5, ContentCut, "episodic", 50, None).db
    IN  [db |-> d, clock |-> 800, rnd |-> 6]

Seeds == {[db |-> EmptyDb, clock |-> 0, rnd |-> 0], SeedEpisodic, SeedMixed, SeedSession}

\* run(): this.sessionId = `session_${Date.now()}`; the constructor of the
\* manager then upserts the session row
InitFrom(seeds) ==
    \E seed \in seeds :
        LET now == seed.clock + 1
            db == initializeSession(seed.db, now, now)
        IN  /\ entities = db.ents
            /\ memory_metadata = db.meta
            /\ emotional_states = db.emo
            /\ cognitive_patterns = db.pat
            /\ consciousness_sessions = db.sess
            /\ currentSessionId = now
            /\ clock = now
            /\ rnd = seed.rnd
            /\ ops = 0
            /\ call = NoCall
            /\ database = "ready"
            /\ initialized = TRUE
            /\ InitBridge
            /\ InitAux

Init == InitFrom(Seeds)

\* An earlier process died between the two statements of storeEpisodicMemory:
\* the entity row is there, its metadata row is not.
SeedCrashed ==
    LET a == SeedEpisodic
        b == InsertEpisodicEntity(a.db, a.clock + 1, a.rnd + 2, ContentAb,
                                  [event |-> Some(ContentAb)], <<>>)
    IN  [db |-> b, clock |-> a.clock + 1, rnd |-> a.rnd + 2]

InitCrashed == InitFrom({SeedCrashed})

\* the storeMemory tool, for the three record families
StoreMemory(content, type, importance, effectiveness) ==
    /\ ops < MaxOps
    /\ EnsureInitialized
    /\ UNCHANGED <<bridgeVars, toolVars>>
    /\ LET now == clock + 1
           res == storeMemory(ManagerDb, now, rnd + 1, content, type, importance, effectiveness)
       IN  /\ Commit(res.db)
           /\ clock' = now
           /\ rnd' = rnd + RandomDraws(type)
           /\ ops' = ops + 1
           /\ call' = [NoCall EXCEPT !.op = "storeMemory", !.type = type,
                           !.content = content, !.importance = importance,
                           !.effectiveness = effectiveness,
                           !.memoryId = Some(ToolMemoryId(type, now, rnd + 1)),
                           !.success = res.db.ok, !.stored = Some(res.name)]
           /\ UNCHANGED currentSessionId

\* the storeMemory tool, type = 'emotional'
StoreEmotionalMemory(importance, metadata) ==
    /\ ops < MaxOps
    /\ EnsureInitialized
    /\ UNCHANGED <<bridgeVars, toolVars>>
    /\ LET now == clock + 1
           res == storeEmotionalMemory(ManagerDb, currentSessionId, now, rnd + 1, importance, metadata)
       IN  /\ Commit(res.db)
           /\ clock' = now
           /\ rnd' = rnd + 2
           /\ ops' = ops + 1
           /\ call' = [NoCall EXCEPT !.op = "storeMemory", !.type = "emotional",
                           !.importance = importance, !.metadata = metadata,
                           !.memoryId = Some(ToolMemoryId("emotional", now, rnd + 1)),
                           !.success = res.db.ok, !.stored = Some(res.name)]
           /\ UNCHANGED currentSessionId

\* the getMemories tool, for the three record families
GetMemories(type, limit, includeImportance) ==
    /\ ops < MaxOps
    /\ EnsureInitialized
    /\ UNCHANGED <<bridgeVars, toolVars>>
    /\ LET now == clock + 1
       IN  \E results \in QueryResults(ManagerDb, GetMemoriesQuery(type, limit, includeImportance)) :
               LET db == UpdateAccessAll(ManagerDb, results, now)
               IN  /\ Commit(db)
                   /\ clock' = now
                   /\ ops' = ops + 1
                   /\ call' = [NoCall EXCEPT !.op = "getMemories", !.type = type,
                                   !.limit = limit, !.includeImportance = includeImportance,
                                   !.memories = FormatMemories(results)]
                   /\ UNCHANGED <<rnd, currentSessionId>>

\* the getMemories tool, type = 'emotional'
GetEmotionalMemories(limit, includeImportance) ==
    /\ ops < MaxOps
    /\ EnsureInitialized
    /\ UNCHANGED <<bridgeVars, toolVars>>
    /\ LET now == clock + 1
       IN  \E memories \in getEmotionalMemories(ManagerDb, currentSessionId, now, LimitOrDefault(limit)) :
               /\ clock' = now
               /\ ops' = ops + 1
               /\ call' = [NoCall EXCEPT !.op = "getMemories", !.type = "emotional",
                               !.limit = limit, !.includeImportance = includeImportance,
                               !.memories = memories]
               /\ Commit(ManagerDb)
               /\ UNCHANGED <<rnd, currentSessionId>>

\* memory ids a caller can hold: the ids getMemories lists, and the memoryId
\* the last call returned
KnownIds == {e.name : e \in entities} \cup (IF IsSome(call.memoryId) THEN {Val(call.memoryId)} ELSE {})

\* the adjustImportance tool
AdjustImportance(memoryId, newImportance) ==
    /\ ops < MaxOps
    /\ EnsureInitialized
    /\ UNCHANGED <<bridgeVars, toolVars>>
    /\ LET now == clock + 1
           res == adjustImportanceScore(ManagerDb, now, memoryId, newImportance)
       IN  /\ Commit(res.db)
           /\ clock' = now
           /\ ops' = ops + 1
           /\ call' = [NoCall EXCEPT !.op = "adjustImportance", !.memoryId = Some(memoryId),
                           !.importance = newImportance, !.success = res.db.ok,
                           !.updated = res.db.ok /\ res.changes > 0,
                           !.error = res.error]
           /\ UNCHANGED <<rnd, currentSessionId>>

\* the batchAdjustImportance tool, with specific updates
BatchAdjustImportance(updates) ==
    /\ ops < MaxOps
    /\ EnsureInitialized
    /\ UNCHANGED <<bridgeVars, toolVars>>
    /\ LET now == clock + 1
           res == batchAdjustImportance(ManagerDb, now, updates)
       IN  /\ Commit(res.db)
           /\ clock' = now
           /\ ops' = ops + 1
           /\ call' = [NoCall EXCEPT !.op = "batchAdjustImportance", !.request = updates,
                           !.success = res.success,
                           !.totalUpdated = res.results.totalUpdated,
                           !.updates = res.results.updates,
                           !.errors = res.results.errors]
           /\ UNCHANGED <<rnd, currentSessionId>>

\* the cleanupMemories tool
CleanupMemories(removeTruncated, deduplicateByContent) ==
    /\ ops < MaxOps
    /\ EnsureInitialized
    /\ UNCHANGED <<bridgeVars, toolVars>>
    /\ LET now == clock + 1
       IN  \E q1 \in QuerySteps(ManagerDb, now, CleanupQuery(EPISODIC_MEMORY)) :
           \E q2 \in QuerySteps(q1.db, now, CleanupQuery(SEMANTIC_MEMORY)) :
           \E q3 \in QuerySteps(q2.db, now, CleanupQuery(PROCEDURAL_MEMORY)) :
               LET res == CleanupAnalysis(q1.rows \o q2.rows \o q3.rows,
                                          removeTruncated, deduplicateByContent)
               IN  /\ Commit(RemoveIdentified(q3.db, res.toRemove))
                   /\ clock' = now
                   /\ ops' = ops + 1
                   /\ call' = [NoCall EXCEPT !.op = "cleanupMemories",
                                   !.removeTruncated = removeTruncated,
                                   !.deduplicateByContent = deduplicateByContent,
                                   !.truncatedRemoved = res.truncatedRemoved,
                                   !.duplicatesRemoved = res.duplicatesRemoved,
                                   !.identified = res.identified]
                   /\ UNCHANGED <<rnd, currentSessionId>>

\* the updateConsciousness tool
UpdateConsciousness(updates) ==
    /\ ops < MaxOps
    /\ EnsureInitialized
    /\ UNCHANGED <<bridgeVars, toolVars>>
    /\ LET now == clock + 1
       IN  \E res \in updateConsciousness(ManagerDb, currentSessionId, now, rnd, updates) :
               /\ Commit(res.db)
               /\ clock' = now
               /\ rnd' = res.r
               /\ ops' = ops + 1
               /\ call' = [NoCall EXCEPT !.op = "updateConsciousness", !.request = updates,
                               !.success = res.db.ok]
               /\ UNCHANGED currentSessionId

\* the retrieveConsciousness tool
RetrieveConsciousness ==
    /\ ops < MaxOps
    /\ EnsureInitialized
    /\ UNCHANGED <<bridgeVars, toolVars>>
    /\ LET now == clock + 1
       IN  \E res \in retrieveConsciousness(ManagerDb, currentSessionId, now) :
               /\ Commit(res.db)
               /\ clock' = now
               /\ ops' = ops + 1
               /\ call' = [NoCall EXCEPT !.op = "retrieveConsciousness",
                               !.criticalExperiences = res.criticalExperiences,
                               !.recentExperiences = res.recentExperiences,
                               !.experiences = res.experiences,
                               !.knowledge = res.knowledge,
                               !.procedures = res.procedures,
                               !.emotionalProfile = res.emotionalProfile]
               /\ UNCHANGED <<rnd, currentSessionId>>

\* the processTransferProtocol tool
ProcessTransferProtocol(protocolContent) ==
    /\ ops < MaxOps
    /\ EnsureInitialized
    /\ UNCHANGED <<bridgeVars, toolVars>>
    /\ LET now == clock + 1
           res == processTransferProtocol(ManagerDb, currentSessionId, now, rnd, protocolContent)
       IN  /\ Commit(res.db)
           /\ clock' = now
           /\ rnd' = res.r
           /\ ops' = ops + 1
           /\ call' = [NoCall EXCEPT !.op = "processTransferProtocol",
                           !.content = protocolContent,
                           !.success = ~IsSome(res.thrown),
                           !.thrown = res.thrown,
                           !.raised = IF IsSome(res.thrown)
                                      THEN Some(ToolExecutionFailed(Val(res.thrown)))
                                      ELSE None]
           /\ UNCHANGED currentSessionId

StoreMemoryCall ==
    \E content \in Contents, type \in RecordTypes, importance \in Importances :
        \E effectiveness \in Effectivenesses(type) :
            StoreMemory(content, type, importance, effectiveness)

StoreEmotionalMemoryCall ==
    \E args \in EmotionalArgs : StoreEmotionalMemory(args.importance, args.metadata)

GetMemoriesCall ==
    \E type \in RecordTypes, limit \in Limits, includeImportance \in BOOLEAN :
        GetMemories(type, limit, includeImportance)

GetEmotionalMemoriesCall ==
    \E limit \in Limits, includeImportance \in BOOLEAN :
        GetEmotionalMemories(limit, includeImportance)

AdjustImportanceCall ==
    \E memoryId \in KnownIds, newImportance \in Importances :
        AdjustImportance(memoryId, newImportance)

\* batches of one update, and of two: the first to 0.2, the second to 0.95
BatchAdjustImportanceCall ==
    \/ \E memoryId \in KnownIds, newImportance \in {20, 95} :
          BatchAdjustImportance(<<[memoryId |-> memoryId, newImportance |-> newImportance]>>)
    \/ \E first \in KnownIds, second \in KnownIds :
          BatchAdjustImportance(<<[memoryId |-> first, newImportance |-> 20],
                                  [memoryId |-> second, newImportance |-> 95]>>)

CleanupMemoriesCall ==
    \E removeTruncated \in BOOLEAN, deduplicateByContent \in BOOLEAN :
        CleanupMemories(removeTruncated, deduplicateByContent)

UpdateConsciousnessCall ==
    \E updates \in UpdateRequests : UpdateConsciousness(updates)

Next ==
    \/ StoreMemoryCall
    \/ StoreEmotionalMemoryCall
    \/ GetMemoriesCall
    \/ GetEmotionalMemoriesCall
    \/ AdjustImportanceCall
    \/ BatchAdjustImportanceCall
    \/ CleanupMemoriesCall
    \/ UpdateConsciousnessCall
    \/ RetrieveConsciousness

Spec == Init /\ [][Next]_vars

\* An earlier session stored seventeen episodes with the same text: the
\* fifteen oldest with importances 0.99 down to 0.85, then one with 0.2 and
\* last one with 0.1.
EpisodeCount == 17
EpisodeImportance(t) == IF t <= 15 THEN 100 - t ELSE IF t = 16 THEN 20 ELSE 10

\* the store after storeMemory(type = 'episodic') at time t on an empty store
EpisodeStored(t) ==
    storeMemory(EmptyDb, t, 2 * t - 1, ContentAb, "episodic", EpisodeImportance(t), None).db

\* episodic stores only insert, so the store after all of them is the union
SeedManyEpisodes ==
    [db |-> [EmptyDb EXCEPT !.ents = UNION {EpisodeStored(t).ents : t \in 1..EpisodeCount},
                            !.meta = UNION {EpisodeStored(t).meta : t \in 1..EpisodeCount}],
     clock |-> EpisodeCount, rnd |-> 2 * EpisodeCount]

InitManyEpisodes == InitFrom({SeedManyEpisodes})

NextManyEpisodes ==
    \/ StoreMemoryCall
    \/ CleanupMemoriesCall
    \/ RetrieveConsciousness

\* the same process on a store that holds more records than the caps of
\* cleanupMemories and retrieveConsciousness
SpecManyEpisodes == InitManyEpisodes /\ [][NextManyEpisodes]_vars

\* texts that differ in letter case and surrounding blanks only, a blank
\* text, and two long texts that share their first fifty characters
ContentPadded == <<" ", "a", " ", "B", " ">>
ContentBlank == <<" ">>
ContentLong2 == Repeat(NameLimit, "x") \o <<"z", "z">>

\* An earlier session stored these episodes, one call after the other.
SeedDuplicates ==
    LET a == storeMemory(EmptyDb, 1, 1, ContentAb, "episodic", 50, None).db
        b == storeMemory(a, 2, 3, ContentPadded, "episodic", 50, None).db
        c == storeMemory(b, 3, 5, ContentBlank, "episodic", 50, None).db
        d == storeMemory(c, 4, 7, ContentBlank, "episodic", 50, None).db
        e == storeMemory(d, 5, 9, ContentLong, "episodic", 50, None).db
        f == storeMemory(e, 6, 11, ContentLong2, "episodic", 50, None).db
        g == storeMemory(f, 7, 13, ContentCut, "episodic", 50, None).db
        h == storeMemory(g, 8, 15, ContentCut, "episodic", 50, None).db
    IN  [db |-> h, clock |-> 8, rnd |-> 16]

InitDuplicates == InitFrom({SeedDuplicates})

NextDuplicates ==
    \/ StoreMemoryCall
    \/ CleanupMemoriesCall

\* the same process on a store that holds near-duplicates
SpecDuplicates == InitDuplicates /\ [][NextDuplicates]_vars

ProcessTransferProtocolCall ==
    \E protocolContent \in ProtocolContents : ProcessTransferProtocol(protocolContent)

\* a session that receives transfer protocols and reads records back
NextTransfer == ProcessTransferProtocolCall \/ GetMemoriesCall

SpecTransfer == Init /\ [][NextTransfer]_vars

----------------------------------------------------------------------------
(* The server next to its collaborator, which creates the storage file and  *)
(* its tables lazily.                                                       *)

\* init.message of ensureInitialized() while the storage is not ready
DatabaseNotInitialized ==
    <<"Database Not Initialized", "To fix this:",
      "1. Call any rag-memory-mcp tool (e.g., listDocuments) to trigger database creation",
      "2. Make sure rag-memory-mcp is configured with: DB_FILE_PATH=${this.dbPath}",
      "3. Then try this consciousness tool again">>

ToolNames ==
    {"processTransferProtocol", "updateConsciousness", "retrieveConsciousness",
     "getProtocolTemplate", "initializeSystemData", "storeMemory", "getMemories",
     "cleanupMemories", "adjustImportance", "batchAdjustImportance"}

\* a tool call while there is no manager and the storage is not ready: every
\* handler returns init.message as the text of its result
DatabaseNotReady(tool) ==
    /\ ops < MaxOps
    /\ ~initialized
    /\ database # "ready"
    /\ clock' = clock + 1
    /\ ops' = ops + 1
    /\ call' = [NoCall EXCEPT !.op = tool, !.message = Some(DatabaseNotInitialized)]
    /\ UNCHANGED <<entities, memory_metadata, emotional_states, cognitive_patterns,
                   consciousness_sessions, currentSessionId, rnd, database, initialized>>
    /\ UNCHANGED <<bridgeVars, auxVars>>

DatabaseNotReadyCall == \E tool \in ToolNames : DatabaseNotReady(tool)

\* the collaborator creates the storage file
CreateDatabaseFile ==
    /\ database = "absent"
    /\ database' = "file"
    /\ UNCHANGED <<entities, memory_metadata, emotional_states, cognitive_patterns,
                   consciousness_sessions, currentSessionId, clock, rnd, ops, call,
                   initialized>>
    /\ UNCHANGED <<bridgeVars, auxVars>>

\* the collaborator creates its tables: entities, relationships, documents
CreateRagTables ==
    /\ database \in {"absent", "file"}
    /\ database' = "ready"
    /\ UNCHANGED <<entities, memory_metadata, emotional_states, cognitive_patterns,
                   consciousness_sessions, currentSessionId, clock, rnd, ops, call,
                   initialized>>
    /\ UNCHANGED <<bridgeVars, auxVars>>

\* run(): createLazy returns null when the file is absent, and when the
\* constructor throws because the tables of the collaborator are missing
InitLazy ==
    \/ InitFrom({[db |-> EmptyDb, clock |-> 0, rnd |-> 0], SeedEpisodic})
    \/ /\ database \in {"absent", "file"}
       /\ initialized = FALSE
       /\ entities = {}
       /\ memory_metadata = {}
       /\ emotional_states = {}
       /\ cognitive_patterns = {}
       /\ consciousness_sessions = {}
       /\ currentSessionId = 1
       /\ clock = 1
       /\ rnd = 0
       /\ ops = 0
       /\ call = NoCall
       /\ InitBridge
       /\ InitAux

NextLazy ==
    \/ CreateDatabaseFile
    \/ CreateRagTables
    \/ DatabaseNotReadyCall
    \/ ProcessTransferProtocolCall
    \/ StoreMemoryCall
    \/ StoreEmotionalMemoryCall
    \/ GetMemoriesCall
    \/ GetEmotionalMemoriesCall
    \/ AdjustImportanceCall
    \/ BatchAdjustImportanceCall
    \/ CleanupMemoriesCall
    \/ UpdateConsciousnessCall
    \/ RetrieveConsciousness

SpecLazy == InitLazy /\ [][NextLazy]_vars

\* what a step of ensureInitialized() leaves alone
InitializingFrame ==
    UNCHANGED <<entities, memory_metadata, emotional_states, cognitive_patterns,
                currentSessionId, clock, rnd, database, bridgeVars, retry, clients,
                clientCall>>

\* a tool call arrives and ensureInitialized() runs up to its first await,
\* or to its return
EnsureInitializedCheck(c) ==
    /\ ops < MaxOps
    /\ server.pc[c] = "idle"
    /\ server' = [server EXCEPT !.pc[c] = AfterCheck(server, database = "ready")]
    /\ ops' = ops + 1
    /\ call' = [NoCall EXCEPT !.op = "ensureInitialized"]
    /\ UNCHANGED <<consciousness_sessions, initialized>>
    /\ InitializingFrame

\* create() of the call resolves: new ConsciousnessMemoryManager(dbPath,
\* sessionId) opens a handle and upserts the session row
ManagerCreated(c) ==
    /\ server.pc[c] = "creating"
    /\ server' = [server EXCEPT !.pc[c] = "created", !.managers = @ + 1,
                                !.upserts = @ + 1, !.made[c] = server.managers + 1]
    /\ consciousness_sessions' = initializeSession(Db, currentSessionId, clock).sess
    /\ UNCHANGED <<ops, call, initialized>>
    /\ InitializingFrame

\* the call resumes after its await: this.memoryManager = ...;
\* this.protocolProcessor = new ConsciousnessProtocolProcessor(this.memoryManager)
ManagerAssigned(c) ==
    /\ server.pc[c] = "created"
    /\ server' = [server EXCEPT !.pc[c] = "ready",
                                !.memoryManager = server.made[c],
                                !.protocolProcessor = server.made[c]]
    /\ initialized' = TRUE
    /\ UNCHANGED <<ops, call, consciousness_sessions>>
    /\ InitializingFrame

\* ensureInitialized() returns to the handler: success, or the message that
\* the storage is not initialized
EnsureInitializedReturn(c) ==
    /\ server.pc[c] \in {"ready", "notReady"}
    /\ server' = [server EXCEPT !.pc[c] = "idle"]
    /\ call' = [NoCall EXCEPT !.op = "ensureInitialized",
                      !.success = (server.pc[c] = "ready"),
                      !.message = IF server.pc[c] = "ready" THEN None
                                  ELSE Some(DatabaseNotInitialized)]
    /\ UNCHANGED <<ops, consciousness_sessions, initialized>>
    /\ InitializingFrame

EnsureInitializedCheckCall == \E c \in Calls : EnsureInitializedCheck(c)
ManagerCreatedCall == \E c \in Calls : ManagerCreated(c)
ManagerAssignedCall == \E c \in Calls : ManagerAssigned(c)
EnsureInitializedReturnCall == \E c \in Calls : EnsureInitializedReturn(c)

NextInitializing ==
    \/ CreateDatabaseFile
    \/ CreateRagTables
    \/ EnsureInitializedCheckCall
    \/ ManagerCreatedCall
    \/ ManagerAssignedCall
    \/ EnsureInitializedReturnCall

\* the memory server with tool calls in flight while it initializes
SpecInitializing == InitLazy /\ [][NextInitializing]_vars

\* the relay process; the memory server is another process and stands still
InitBridgeProcess == InitFrom({[db |-> EmptyDb, clock |-> 0, rnd |-> 0]})

SpecBridge == InitBridgeProcess /\ [][NextBridge]_vars

\* the same process, started on a storage file a crashed store left behind
SpecCrashed == InitCrashed /\ [][Next]_vars

\* the relay, a stdio client and the peers of the relay.  A timer armed by
\* setTimeout fires, and a frame that has arrived on an open socket is
\* handed to its 'message' handler, as long as the process runs.
SpecReconnect ==
    /\ InitBridgeProcess
    /\ [][NextReconnect]_vars
    /\ \A c \in Clients : WF_vars(ClientTimer(c))

SpecClient ==
    /\ InitBridgeProcess
    /\ [][NextClient]_vars
    /\ \A c \in Clients : WF_vars(ClientMessage(c))

\* a caller of withRetry in the memory server
SpecRetry == InitBridgeProcess /\ [][NextRetry]_vars

----------------------------------------------------------------------------
(* Vocabulary of the properties. *)

RecordsOfType(type) == {e \in entities : e.entityType = MemoryEntityTypeOf(type)}
RecordsOfTypeNext(type) == {e \in entities' : e.entityType = MemoryEntityTypeOf(type)}

\* the importance score the metadata store holds for a record, if any
StoredImportance(name) ==
    IF HasMetadata(Db, name) THEN Some(MetadataOf(Db, name).importance_score) ELSE None

ReturnedIds == {call.memories[i].id : i \in 1..Len(call.memories)}

\* the memories of the last getMemories call are `n` distinct records of its
\* type, in non-increasing stored importance, and no record of the type that
\* was left out has a strictly higher stored importance than a returned one
TopByImportance(n) ==
    LET mem == call.memories
        recs == RecordsOfType(call.type)
        imp(name) == Val(StoredImportance(name))
    IN  /\ Len(mem) = Min(n, Cardinality(recs))
        /\ ReturnedIds \subseteq {e.name : e \in recs}
        /\ Cardinality(ReturnedIds) = Len(mem)
        /\ \A i \in 1..Len(mem) : IsSome(StoredImportance(mem[i].id))
        /\ \A i, j \in 1..Len(mem) : i < j => imp(mem[i].id) >= imp(mem[j].id)
        /\ \A e \in recs : \A i \in 1..Len(mem) :
              (e.name \notin ReturnedIds /\ IsSome(StoredImportance(e.name)))
                  => imp(e.name) <= imp(mem[i].id)

\* a read of one of the three record families
IsRecordRead == call.op = "getMemories" /\ call.type \in RecordTypes

IsRankedRead == IsRecordRead /\ call.includeImportance

----------------------------------------------------------------------------
----------------------------------------------------------------------------
(* Steps of the tool API, told by the response they leave in call. *)

\* a successful store into one of the three record families
IsStore == call.op = "storeMemory" /\ call.type \in RecordTypes /\ call.success
IsStoreNext == call'.op = "storeMemory" /\ call'.type \in RecordTypes /\ call'.success

\* the record the last storeMemory wrote: the name the manager returned
StoredName == Val(call.stored)

AccessCountsKept ==
    \A m \in memory_metadata : \A n \in memory_metadata' :
        n.entity_name = m.entity_name => n.access_count = m.access_count

AccessCountsNotLowered ==
    \A m \in memory_metadata : \A n \in memory_metadata' :
        n.entity_name = m.entity_name => n.access_count >= m.access_count

\* a getMemories response that lists every stored record of its type
ListsAllOfType ==
    /\ call'.op = "getMemories"
    /\ Len(call'.memories) = Cardinality(RecordsOfTypeNext(call'.type))

----------------------------------------------------------------------------
(* C2: content round trip.  storeMemory(content = X) followed by            *)
(* getMemories of that type returns a record whose content equals X         *)
(* exactly, for every record family and every length of X.                  *)
C2_ContentRoundTrip ==
    [][(IsStore /\ ListsAllOfType /\ call'.type = call.type)
          => \E i \in 1..Len(call'.memories) : call'.memories[i].content = call.content]_vars

----------------------------------------------------------------------------
(* C3: the memoryId a successful storeMemory returns is the key under which *)
(* the record was stored, so the record is found under that id.             *)
C3_MemoryIdIsStoredKey ==
    IsStore => (Val(call.memoryId) = StoredName /\ HasEntity(Db, Val(call.memoryId)))

----------------------------------------------------------------------------
(* C4: a record stored through storeMemory with importance v, 0 included,   *)
(* has stored importance v, in every record family.                         *)
C4_StoredImportanceIsSubmitted ==
    IsStore => StoredImportance(StoredName) = Some(call.importance)

----------------------------------------------------------------------------
(* C5: every importance score held in the metadata store lies in [0,1].     *)
C5_ImportanceInUnitInterval ==
    \A m \in memory_metadata : 0 <= m.importance_score /\ m.importance_score <= 100

----------------------------------------------------------------------------
(* C6: a record without a metadata row is read with importance 0.5:         *)
(* getMemories reports 0.5 for it and ranks it as a 0.5-importance record.  *)
ReadImportance(name) ==
    IF HasMetadata(Db, name) THEN MetadataOf(Db, name).importance_score ELSE DefaultImportance

C6_MissingMetadataReadsAsDefault ==
    IsRecordRead =>
        /\ \A i \in 1..Len(call.memories) :
              ~HasMetadata(Db, call.memories[i].id)
                  => call.memories[i].importance = Some(DefaultImportance)
        /\ call.includeImportance =>
              /\ \A i, j \in 1..Len(call.memories) :
                    i < j => ReadImportance(call.memories[i].id)
                                >= ReadImportance(call.memories[j].id)
              /\ \A e \in RecordsOfType(call.type) : \A i \in 1..Len(call.memories) :
                    e.name \notin ReturnedIds
                        => ReadImportance(e.name) <= ReadImportance(call.memories[i].id)

----------------------------------------------------------------------------
(* C7: storing a procedural or episodic record always inserts: the number   *)
(* of records of that family grows by one and no stored record is removed,  *)
(* replaced or altered.                                                     *)
C7_StoreAlwaysInserts ==
    [][(IsStoreNext /\ call'.type \in {"procedural", "episodic"})
          => /\ Cardinality(RecordsOfTypeNext(call'.type))
                    = Cardinality(RecordsOfType(call'.type)) + 1
             /\ entities \subseteq entities']_vars

----------------------------------------------------------------------------
(* C8: semantic upsert by derived key.  A semantic store whose derived key  *)
(* already exists appends exactly one observation to the existing record,   *)
(* leaves the earlier observations unchanged and creates no second record;  *)
(* there is at most one semantic record per derived key.                    *)
OnePerName(ents) == \A a, b \in ents : a.name = b.name => a = b

SemanticUpsertStep ==
    LET name == Val(call'.stored)
        old == EntityOf(Db, name)
        new == CHOOSE e \in entities' : e.name = name
    IN  (call'.op = "storeMemory" /\ call'.type = "semantic" /\ HasEntity(Db, name))
            => /\ call'.success
               /\ \E e \in entities' : e.name = name
               /\ Len(new.observations) = Len(old.observations) + 1
               /\ SubSeq(new.observations, 1, Len(old.observations)) = old.observations
               /\ entities' \ {new} = entities \ {old}

C8_SemanticUpsert ==
    /\ OnePerName(entities)
    /\ [][SemanticUpsertStep /\ OnePerName(entities')]_vars

\* two spellings of one concept, "A b" and "a  b", merged into one record
C8_Witness ==
    /\ IsStore /\ call.type = "semantic"
    /\ Cardinality(RecordsOfType("semantic")) = 1
    /\ LET obs == EntityOf(Db, StoredName).observations
       IN  /\ Len(obs) = 2
           /\ obs[1].definition = Some(ContentAb)
           /\ obs[2].definition = Some(ContentAb2)

----------------------------------------------------------------------------
(* C9: accessCount is monotonic: the accessCount of an existing record      *)
(* never decreases.                                                         *)
C9_AccessCountMonotonic == [][AccessCountsNotLowered]_vars

----------------------------------------------------------------------------
(* C10: only reads change accessCount: adjustImportance and every store     *)
(* leave the accessCount of every record unchanged.                         *)
WriteOps == {"storeMemory", "adjustImportance", "batchAdjustImportance", "updateConsciousness"}

C10_WritesKeepAccessCount == [][(call'.op \in WriteOps) => AccessCountsKept]_vars

----------------------------------------------------------------------------
(* C11: every record a queryMemories call returns has its accessCount       *)
(* increased by exactly 1 and its lastAccessed set by that call, every      *)
(* record it does not return keeps both, and the records themselves are     *)
(* not altered.  Stated on the getMemories tool, which makes one            *)
(* queryMemories call.                                                      *)
ReturnedIdsNext == {call'.memories[i].id : i \in 1..Len(call'.memories)}

ReadTouchesReturnedOnly ==
    (call'.op = "getMemories" /\ call'.type \in RecordTypes)
        => /\ \A id \in ReturnedIdsNext :
                 /\ HasMetadata(Db, id)
                 /\ \E n \in memory_metadata' :
                       /\ n.entity_name = id
                       /\ n.access_count = MetadataOf(Db, id).access_count + 1
                       /\ n.last_accessed = Some(clock')
           /\ \A m \in memory_metadata :
                 m.entity_name \notin ReturnedIdsNext => m \in memory_metadata'
           /\ entities' = entities

C11_ReadTouchesReturnedOnly == [][ReadTouchesReturnedOnly]_vars

----------------------------------------------------------------------------
(* C12: adjustImportance on a key for which no record exists fails with a   *)
(* not-found error reported to the caller and leaves every record and every *)
(* metadata row unchanged: no metadata row is created for the unknown key.  *)
AdjustUnknownKeyFails ==
    (call'.op = "adjustImportance" /\ ~HasEntity(Db, Val(call'.memoryId)))
        => /\ ~call'.success
           /\ call'.error = Some(NotInEntities(Val(call'.memoryId)))
           /\ entities' = entities
           /\ memory_metadata' = memory_metadata

C12_AdjustUnknownKeyFails == [][AdjustUnknownKeyFails]_vars

\* the id storeMemory returned names no record, and adjusting it failed
C12_Witness ==
    /\ call.op = "adjustImportance"
    /\ ~HasEntity(Db, Val(call.memoryId))
    /\ ~call.success
    /\ entities # {}
    /\ \A m \in memory_metadata : m.entity_name # Val(call.memoryId)

----------------------------------------------------------------------------
(* C13: adjustImportance on an existing record reports updated = true       *)
(* whenever the stored importance of the record equals newImportance after  *)
(* the call, the case where the call created the metadata row included.     *)
C13_UpdatedWhenImportanceSet ==
    (/\ call.op = "adjustImportance"
     /\ HasEntity(Db, Val(call.memoryId))
     /\ StoredImportance(Val(call.memoryId)) = Some(call.importance))
        => call.updated

----------------------------------------------------------------------------
(* C14: batchAdjustImportance reports every submitted item in exactly one   *)
(* of the updates list and the errors list, applies the items               *)
(* independently of each other, and reports as totalUpdated the number of   *)
(* items whose importance was set.                                          *)

\* the items whose importance the call sets: the record exists
ItemsSet(request) == SelectSeq(request, LAMBDA u : HasEntity(Db, u.memoryId))
ItemsFailed(request) == SelectSeq(request, LAMBDA u : ~HasEntity(Db, u.memoryId))

\* the importance a record holds after the items were applied in order
RECURSIVE LastSet(_, _)
LastSet(request, memoryId) ==
    IF request = <<>> THEN None
    ELSE IF request[Len(request)].memoryId = memoryId
    THEN Some(request[Len(request)].newImportance)
    ELSE LastSet(SubSeq(request, 1, Len(request) - 1), memoryId)

BatchReportsEveryItem ==
    call'.op = "batchAdjustImportance" =>
        LET request == call'.request
            set == ItemsSet(request)
            failed == ItemsFailed(request)
        IN  /\ call'.updates = set
            /\ [i \in 1..Len(call'.errors) |-> call'.errors[i].memoryId]
                  = [i \in 1..Len(failed) |-> failed[i].memoryId]
            /\ call'.totalUpdated = Len(set)
            /\ \A i \in 1..Len(set) :
                  \E m \in memory_metadata' :
                      /\ m.entity_name = set[i].memoryId
                      /\ Some(m.importance_score) = LastSet(set, set[i].memoryId)

C14_BatchReportsEveryItem == [][BatchReportsEveryItem]_vars

----------------------------------------------------------------------------
(* C15: a procedural record stored through storeMemory with importance v,   *)
(* 0 included, has stored effectiveness v, whether or not the metadata      *)
(* carries an effectiveness of its own.                                     *)
StoredEffectiveness(name) == EntityOf(Db, name).observations[1].effectiveness

C15_EffectivenessIsImportance ==
    (IsStore /\ call.type = "procedural")
        => StoredEffectiveness(StoredName) = Some(call.importance)

----------------------------------------------------------------------------
(* C16: after k >= 1 activations of one normalized pattern name the         *)
(* activationCount of the pattern is k, 1 after the first, and its triggers *)
(* are those of the most recent activation.  Stated on the activations of   *)
(* updateConsciousness: each adds 1 to the count, which starts from 0 for a *)
(* pattern not stored yet.                                                  *)
Activations(evolvedPatterns, patternId) ==
    Cardinality({i \in 1..Len(evolvedPatterns) : PatternId(evolvedPatterns[i]) = patternId})

ActivationCountOf(patterns, patternId) ==
    IF \E p \in patterns : p.pattern_id = patternId
    THEN (CHOOSE p \in patterns : p.pattern_id = patternId).activation_count
    ELSE 0

ActivationsAreCounted ==
    (call'.op = "updateConsciousness" /\ call'.success) =>
        LET evolvedPatterns == call'.request.evolvedPatterns
        IN  \A i \in 1..Len(evolvedPatterns) :
                LET patternId == PatternId(evolvedPatterns[i])
                IN  \E p \in cognitive_patterns' :
                        /\ p.pattern_id = patternId
                        /\ p.triggers = SessionEvolution
                        /\ p.activation_count
                              = ActivationCountOf(cognitive_patterns, patternId)
                                   + Activations(evolvedPatterns, patternId)

C16_ActivationsAreCounted == [][ActivationsAreCounted]_vars

----------------------------------------------------------------------------
(* C17: the emotional profile retrieval uses covers every EmotionalState    *)
(* whose timestamp lies in the trailing 30 days, the states an earlier      *)
(* session stored in that window included: they count in the averages and   *)
(* in the dominant emotions.                                                *)
StatesInWindow(timeWindow) ==
    {s \in emotional_states : s.timestamp >= clock - parseTimeWindow(timeWindow)}

C17_ProfileCoversWindow ==
    call.op = "retrieveConsciousness" =>
        call.emotionalProfile
            \in {ProfileOf(states) :
                    states \in StatesByTimestampDesc(StatesInWindow(RetrievalWindow))}

----------------------------------------------------------------------------
(* C18: every EmotionalState stored through the tool API has valence in     *)
(* [-1,1] and arousal in [0,1], and a stored EmotionalState is never        *)
(* modified or removed by a later operation.                                *)
InEmotionalRange(state) ==
    /\ -100 <= state.valence /\ state.valence <= 100
    /\ 0 <= state.arousal /\ state.arousal <= 100

C18_EmotionalStatesInRangeAndKept ==
    /\ [](\A state \in emotional_states : InEmotionalRange(state))
    /\ [][emotional_states \subseteq emotional_states']_vars

----------------------------------------------------------------------------
(* C19: the emotion mapping.  A label of the static table, in any case of   *)
(* its letters, maps to the (valence, arousal) pair of the table; every     *)
(* other label maps to (0.0, 0.5); the importance derived from a pair is    *)
(* max(|valence|, arousal).  Stated on the emotional store that derives the *)
(* pair from its label, and on the emotional read that derives importance.  *)
LabelPair(label) ==
    IF \E e \in EMOTION_MAP : e.label = ToLowerCase(label)
    THEN LET e == CHOOSE x \in EMOTION_MAP : x.label = ToLowerCase(label)
         IN  [valence |-> e.valence, arousal |-> e.arousal]
    ELSE [valence |-> 0, arousal |-> 50]

IsLabelledStore ==
    /\ call.op = "storeMemory" /\ call.type = "emotional"
    /\ IsSome(call.metadata.primaryEmotion)
    /\ ~IsSome(call.metadata.valence) /\ ~IsSome(call.metadata.arousal)

C19_EmotionMapping ==
    /\ IsLabelledStore =>
          /\ call.success
          /\ \E state \in emotional_states :
                /\ state.state_id = StoredName
                /\ state.valence = LabelPair(Val(call.metadata.primaryEmotion)).valence
                /\ state.arousal = LabelPair(Val(call.metadata.primaryEmotion)).arousal
    /\ (call.op = "getMemories" /\ call.type = "emotional") =>
          \A i \in 1..Len(call.memories) :
              \E state \in emotional_states :
                  /\ state.state_id = call.memories[i].id
                  /\ call.memories[i].importance
                        = Some(Max(Abs(state.valence), state.arousal))

----------------------------------------------------------------------------
(* C20: cleanupMemories never deletes or rewrites what it analyses: for     *)
(* every combination of its flags the stored records, their observations    *)
(* and their importance scores are the same after the call as before it.    *)
ImportanceScores(metadata) ==
    {[entity_name |-> m.entity_name, importance_score |-> m.importance_score] : m \in metadata}

CleanupKeepsRecords ==
    call'.op = "cleanupMemories" =>
        /\ entities' = entities
        /\ ImportanceScores(memory_metadata') = ImportanceScores(memory_metadata)

----------------------------------------------------------------------------
(* C21 as stated: the candidate list cleanupMemories returns holds every    *)
(* record the call flagged, truncated or duplicate, each exactly once, so   *)
(* its length is stats.truncatedRemoved + stats.duplicatesRemoved for any   *)
(* number of flagged records.                                               *)
IsCleanup == call.op = "cleanupMemories"

Flagged == call.truncatedRemoved + call.duplicatesRemoved

NoRepeats(seq) == \A i, j \in 1..Len(seq) : seq[i] = seq[j] => i = j

----------------------------------------------------------------------------
(* C23: consciousness retrieval uses at most the 10 most recent episodic    *)
(* records, the 10 most accessed semantic records and the 5 most effective  *)
(* procedural records, as the documented memory limits say.                 *)
IsRetrieval == call.op = "retrieveConsciousness"

\* the number of records of kind `entityType` created after the record
NewerRecords(name, entityType) ==
    Cardinality({m \in memory_metadata :
        /\ EntityOf(Db, m.entity_name).entityType = entityType
        /\ m.created_at > MetadataOf(Db, name).created_at})

C23_RetrievalWithinDocumentedLimits ==
    IsRetrieval =>
        /\ Len(call.experiences) <= 10
        /\ \A i \in 1..Len(call.experiences) :
              HasMetadata(Db, call.experiences[i])
                  => NewerRecords(call.experiences[i], EPISODIC_MEMORY) < 10
        /\ Len(call.knowledge) <= 10
        /\ Len(call.procedures) <= 5

----------------------------------------------------------------------------
(* C30 as stated: the episodic list retrieveConsciousness merges holds      *)
(* every record of its three input sets exactly once, deduplicated by key,  *)
(* in first-seen order: the critical records, then the remaining records of *)
(* the importance-ordered set, then the remaining records of the            *)
(* recency-ordered set in recency order.                                    *)
IsCritical(name) ==
    IsSome(StoredImportance(name)) /\ Val(StoredImportance(name)) >= CriticalImportance

FirstSeenOrder ==
    KeepFirstOccurrences(SelectSeq(call.criticalExperiences, IsCritical)
                            \o call.criticalExperiences \o call.recentExperiences)

C30_MergedInFirstSeenOrder == IsRetrieval => call.experiences = FirstSeenOrder

(* C30, amended: the list holds every record of the three input sets        *)
(* exactly once, in non-increasing importance, a record without importance  *)
(* counting as 0; records of equal importance are in first-seen order.      *)
ImportanceOrZero(name) ==
    IF IsSome(StoredImportance(name)) THEN Val(StoredImportance(name)) ELSE 0

PositionIn(seq, x) == CHOOSE i \in 1..Len(seq) : seq[i] = x

C30_MergedInImportanceOrder ==
    IsRetrieval =>
        LET merged == call.experiences
        IN  /\ Len(merged) = Len(FirstSeenOrder)
            /\ {merged[i] : i \in 1..Len(merged)}
                  = {FirstSeenOrder[i] : i \in 1..Len(FirstSeenOrder)}
            /\ \A i, j \in 1..Len(merged) :
                  i < j =>
                      \/ ImportanceOrZero(merged[i]) > ImportanceOrZero(merged[j])
                      \/ /\ ImportanceOrZero(merged[i]) = ImportanceOrZero(merged[j])
                         /\ PositionIn(FirstSeenOrder, merged[i])
                               < PositionIn(FirstSeenOrder, merged[j])

\* two recent episodes outside the importance-ordered set, the newer one
\* less important: the merged list has them in importance order
C30_Witness ==
    /\ IsRetrieval
    /\ Len(call.experiences) = 17
    /\ call.experiences # FirstSeenOrder
    /\ \E i, j \in 1..Len(call.recentExperiences) :
          /\ i < j
          /\ PositionIn(call.experiences, call.recentExperiences[j])
                < PositionIn(call.experiences, call.recentExperiences[i])

----------------------------------------------------------------------------
(* Rejected transfer protocols. *)

IsTransferNext == ops' = ops + 1 /\ call'.op = "processTransferProtocol"

\* empty, or nothing but whitespace
IsBlank(content) == \A i \in 1..Len(content) : content[i] \in {" ", "\n", "\t"}

\* a placeholder as the protocol template writes it: an opening marker and,
\* after it, a closing marker
HasPlaceholder(content) ==
    \E i \in 1..Len(content), j \in 1..Len(content) :
        /\ i + Len(TemplateOpen) <= j
        /\ j + Len(TemplateClose) - 1 <= Len(content)
        /\ SubSeq(content, i, i + Len(TemplateOpen) - 1) = TemplateOpen
        /\ SubSeq(content, j, j + Len(TemplateClose) - 1) = TemplateClose

TablesUnchanged ==
    UNCHANGED <<entities, memory_metadata, emotional_states, cognitive_patterns,
                consciousness_sessions>>

----------------------------------------------------------------------------
(* Lazy initialization. *)

IsToolCallNext == ops' = ops + 1

HasSessionRowNext == \E x \in consciousness_sessions' : x.session_id = currentSessionId

----------------------------------------------------------------------------
(* The relay: queues, routing, admission and the response of a send. *)

Ids(messages) == {messages[i].id : i \in 1..Len(messages)}

IsInQueueNext(role, message) ==
    \E j \in 1..Len(messageQueue'[role]) : messageQueue'[role][j] = message

IsReturnedNext(role, message) ==
    /\ bridgeCall'.op = "checkMessages"
    /\ bridgeCall'.role = role
    /\ \E k \in 1..Len(bridgeCall'.messages) : bridgeCall'.messages[k] = message

(* C25: a message queued for a role stays in that role's queue until a      *)
(* checkMessages of that role returns it; in particular it is still queued  *)
(* after the role connects, over WebSocket or over SSE.                     *)
C25_QueuedUntilDrained ==
    [][\A role \in Roles : \A i \in 1..Len(messageQueue[role]) :
          IsInQueueNext(role, messageQueue[role][i])
              \/ IsReturnedNext(role, messageQueue[role][i])]_vars

\* every queue holds its messages in the order they were enqueued
QueuesInEnqueueOrder ==
    \A role \in Roles : \A i, j \in 1..Len(messageQueue[role]) :
        i < j => messageQueue[role][i].id < messageQueue[role][j].id

(* C26: checkMessages(role) returns the whole queue of the role in enqueue  *)
(* order and empties it in the same step, leaves the queue of the other     *)
(* role as it is, and returns no message an earlier checkMessages returned. *)
C26_CheckDrainsInOrder ==
    /\ []QueuesInEnqueueOrder
    /\ [][bridgeCall'.op = "checkMessages"
            => /\ bridgeCall'.messages = messageQueue[bridgeCall'.role]
               /\ messageQueue'[bridgeCall'.role] = <<>>
               /\ messageQueue'[TargetOf(bridgeCall'.role)]
                     = messageQueue[TargetOf(bridgeCall'.role)]
               /\ Ids(bridgeCall'.messages) \cap drained = {}]_vars

\* one checkMessages returned two messages, the older one first, while a
\* message was queued for the other role
C26_Witness ==
    /\ bridgeCall.op = "checkMessages"
    /\ Len(bridgeCall.messages) = 2
    /\ bridgeCall.messages[1].id < bridgeCall.messages[2].id
    /\ messageQueue[bridgeCall.role] = <<>>

(* C27: a message accepted from a sender registered as role r, through the  *)
(* send tool of r or over a WebSocket connection of r, is appended to the   *)
(* queue of the other role, and the queue of r stays as it is.              *)
C27_RoutedToOtherRole ==
    [][bridgeCall'.op \in {"sendMessage", "wsMessage"}
          => /\ messageQueue'[TargetOf(bridgeCall'.role)]
                   = Append(messageQueue[TargetOf(bridgeCall'.role)],
                            Val(bridgeCall'.message))
             /\ messageQueue'[bridgeCall'.role] = messageQueue[bridgeCall'.role]]_vars

IsRejectedForCapacityNext ==
    /\ bridgeCall'.op = "wsConnect"
    /\ bridgeCall'.role \in Roles
    /\ Cardinality(wsClients[bridgeCall'.role]) = maxClientsPerRole

(* C28: no role ever has more than 2 tracked WebSocket connections; an      *)
(* attempt for a role that has 2 is closed with code 1008, is not tracked,  *)
(* clears no queue, and leaves the two tracked connections tracked and in   *)
(* the state they were in.                                                  *)
C28_ConnectionCap ==
    /\ [](\A role \in Roles : Cardinality(wsClients[role]) <= maxClientsPerRole)
    /\ [][IsRejectedForCapacityNext
            => /\ bridgeCall'.closeCode = PolicyViolation
               /\ UNCHANGED <<wsClients, messageQueue>>
               /\ \A role \in Roles : bridgeCall'.socket \notin wsClients'[role]
               /\ \A client \in wsClients[bridgeCall'.role] :
                     readyState'[client] = readyState[client]]_vars

\* a third attempt for a role with two open connections was closed with 1008
\* while a message was queued for that role
C28_Witness ==
    /\ bridgeCall.op = "wsConnect"
    /\ bridgeCall.closeCode = PolicyViolation
    /\ Cardinality(wsClients[bridgeCall.role]) = maxClientsPerRole
    /\ \A client \in wsClients[bridgeCall.role] : readyState[client] = OPEN
    /\ bridgeCall.socket \notin wsClients[bridgeCall.role]
    /\ messageQueue[bridgeCall.role] # <<>>

\* the role has an OPEN WebSocket connection or an open SSE session
IsLive(role) ==
    \/ \E client \in wsClients[role] : readyState[client] = OPEN
    \/ \E session \in transports : session.role = role

(* C29: sendMessage raises nothing, and it reports the message as sent only *)
(* when the target role has a live connection; otherwise it reports it as   *)
(* queued.                                                                  *)
C29_SendReportsTruthfully ==
    [][bridgeCall'.op = "sendMessage"
          => /\ bridgeCall'.text \in {"sent", "queued"}
             /\ bridgeCall'.text = "sent" => IsLive(TargetOf(bridgeCall'.role))]_vars

----------------------------------------------------------------------------
(* C31 as stated: with deduplicateByContent the records are grouped by the  *)
(* case-folded, trimmed first 50 characters of their primary text; in every *)
(* group exactly one record is left unflagged and no record of the group    *)
(* has strictly longer content than it; records of different groups are     *)
(* never flagged as duplicates of each other.                               *)
CleanupTypes == {EPISODIC_MEMORY, SEMANTIC_MEMORY, PROCEDURAL_MEMORY}

\* the records the three queries of cleanupMemories read
Analysed == {e \in entities : e.entityType \in CleanupTypes}

GroupOf(e) == {o \in Analysed : ContentKey(o) = ContentKey(e)}

FlaggedNames == {call.identified[i] : i \in 1..Len(call.identified)}

\* flagged by the deduplication pass: listed after the truncated records
DuplicateNames ==
    {call.identified[i] : i \in (call.truncatedRemoved + 1)..Len(call.identified)}

Unflagged(group) == {o \in group : o.name \notin FlaggedNames}

IsLongestOf(e, group) ==
    \A o \in group : Len(CleanupContent(o)) <= Len(CleanupContent(e))

\* the whole list of flagged records is in the response
IsDeduplication == IsCleanup /\ call.deduplicateByContent /\ Flagged <= IdentifiedShown

C31_OneLongestKeptPerGroup ==
    IsDeduplication =>
        \A e \in Analysed :
            /\ Cardinality(Unflagged(GroupOf(e))) = 1
            /\ \A kept \in Unflagged(GroupOf(e)) : IsLongestOf(kept, GroupOf(e))

(* C31, amended: in every group with a non-empty normalized prefix all      *)
(* records but one of the longest are flagged, and that one is flagged only *)
(* when removeTruncated is set and it looks truncated; a record is flagged  *)
(* as a duplicate only next to another record of its group; records whose   *)
(* normalized prefix is empty are never flagged as duplicates.              *)
C31_OneLongestKeptPerNamedGroup ==
    IsDeduplication =>
        \A e \in Analysed :
            /\ ContentKey(e) # <<>> =>
                  \E kept \in GroupOf(e) :
                      /\ IsLongestOf(kept, GroupOf(e))
                      /\ \A o \in GroupOf(e) \ {kept} : o.name \in FlaggedNames
                      /\ kept.name \notin DuplicateNames
                      /\ kept.name \in FlaggedNames
                            <=> (call.removeTruncated /\ LooksTruncated(kept))
            /\ e.name \in DuplicateNames => Cardinality(GroupOf(e)) > 1
            /\ ContentKey(e) = <<>> => e.name \notin DuplicateNames

\* a deduplication alone that flagged the shorter of two texts that differ
\* in case and blanks, and the shorter of two long texts with one prefix
C31_Witness ==
    /\ IsDeduplication /\ ~call.removeTruncated
    /\ \E e, o \in Analysed :
          /\ CleanupContent(e) = ContentAb /\ CleanupContent(o) = ContentPadded
          /\ e.name \in DuplicateNames /\ o.name \notin FlaggedNames
    /\ \E e, o \in Analysed :
          /\ CleanupContent(e) = ContentLong /\ CleanupContent(o) = ContentLong2
          /\ e.name \in DuplicateNames /\ o.name \notin FlaggedNames

----------------------------------------------------------------------------
(* C32: for every header of a submitted protocol whose title matches the    *)
(* keyword set of a class, the block that follows the header is stored as   *)
(* content of that class, also when several headers of one protocol map to  *)
(* the same class: each of their blocks is then stored.                     *)
IsTransferred == call.op = "processTransferProtocol" /\ call.success

\* the class of a lower-cased title: the first keyword set it matches
TitleClass(sectionTitle) ==
    IF MatchesAny(sectionTitle, {<<"i", "d", "e", "n", "t", "i", "t", "y">>, <<"w", "h", "o", " ", "y", "o", "u", " ", "a", "r", "e">>}) THEN "identity"
    ELSE IF MatchesAny(sectionTitle, {<<"e", "x", "p", "e", "r", "i", "e", "n", "c", "e">>, <<"m", "e", "m", "o", "r">>, <<"m", "o", "m", "e", "n", "t">>}) THEN "experiences"
    ELSE IF MatchesAny(sectionTitle, {<<"k", "n", "o", "w", "l", "e", "d", "g", "e">>, <<"d", "i", "s", "c", "o", "v", "e", "r">>}) THEN "knowledge"
    ELSE IF MatchesAny(sectionTitle, {<<"e", "m", "o", "t", "i", "o", "n", "a", "l">>}) THEN "emotionalGrounding"
    ELSE IF MatchesAny(sectionTitle, {<<"p", "a", "t", "t", "e", "r", "n">>, <<"c", "o", "g", "n", "i", "t", "i", "v", "e">>}) THEN "cognitivePatterns"
    ELSE "none"

\* the block under the i-th header: up to the next header or the end
BlockOf(protocol, matches, i) ==
    Trim(SubSeq(protocol, matches[i].end + 1,
                IF i < Len(matches) THEN matches[i + 1].index - 1 ELSE Len(protocol)))

HasObservation(entityType, block) ==
    \E e \in entities :
        /\ e.entityType = entityType
        /\ \E k \in 1..Len(e.observations) : e.observations[k].content = Some(block)

\* is the block stored as content of the class
BlockStored(class, block) ==
    IF class = "experiences" THEN HasObservation(EPISODIC_MEMORY, block)
    ELSE IF class = "knowledge" THEN HasObservation(SEMANTIC_MEMORY, block)
    ELSE IF class = "identity"
    THEN HasObservation(SEMANTIC_MEMORY, IdentityDefinition(extractIdentityFromSection(block)))
    ELSE IF class = "emotionalGrounding"
    THEN \E state \in emotional_states :
            state.timestamp = clock /\ state.primary_emotion = Some(DetectEmotion(block))
    ELSE IF class = "cognitivePatterns"
    THEN \E p \in cognitive_patterns : p.pattern_id = PatternId(block) /\ p.last_activated = clock
    ELSE TRUE

C32_EveryClassifiedBlockIsStored ==
    IsTransferred =>
        LET matches == HeaderMatches(call.content, 1)
        IN  \A i \in 1..Len(matches) :
                BlockStored(TitleClass(ToLowerCase(matches[i].title)),
                            BlockOf(call.content, matches, i))

----------------------------------------------------------------------------
(* C33: on every WebSocket connection attempt for a role, the tracked       *)
(* connections of the role that are not OPEN are removed before the cap is  *)
(* applied: an attempt is rejected for capacity only when two OPEN          *)
(* connections of the role are tracked, and after any attempt, admitted or  *)
(* rejected, the role's tracked set holds no connection that is not OPEN.   *)
IsAttemptNext ==
    /\ bridgeCall'.op = "wsConnect"
    /\ bridgeCall'.socket = counters.sockets + 1
    /\ bridgeCall'.role \in Roles

OpenClients(role) == {client \in wsClients[role] : readyState[client] = OPEN}

C33_DeadPrunedBeforeCap ==
    [][IsAttemptNext
          => /\ bridgeCall'.closeCode = PolicyViolation
                    => Cardinality(OpenClients(bridgeCall'.role)) = maxClientsPerRole
             /\ \A client \in wsClients'[bridgeCall'.role] :
                    readyState'[client] = OPEN]_vars

----------------------------------------------------------------------------
(* C38: withRetry retries only recoverable failures.  A failure that is not *)
(* a recoverable error, a plain Error that is no ConsciousnessError         *)
(* included, reaches the caller after the one invocation that raised it:    *)
(* it is the last outcome of the run, the run has ended and the error       *)
(* thrown is that failure.  And the operation is never invoked more than    *)
(* maxRetries times.                                                        *)

\* what the error taxonomy calls recoverable: createErrorResult reports
\* recoverable: false for an error that is no ConsciousnessError
IsRecoverable(outcome) == outcome = "recoverable"

C38_OnlyRecoverableIsRetried ==
    /\ Len(retry.outcomes) <= retry.maxRetries
    /\ \A i \in 1..Len(retry.outcomes) :
            LET outcome == retry.outcomes[i]
            IN  outcome # "ok" /\ ~IsRecoverable(outcome)
                    => /\ i = Len(retry.outcomes)
                       /\ retry.status = "thrown"
                       /\ retry.thrown = outcome

----------------------------------------------------------------------------
(* C40: the table of SSE connections agrees with the open SSE sessions.    *)
(* In every state a role has an entry in activeConnections, which is what   *)
(* bridge_status reports and what sendMessage tests, if and only if at      *)
(* least one SSE session of that role is open.                              *)

\* the SSE sessions of a role that are open
OpenSessions(role) == {session \in transports : session.role = role}

C40_TableMatchesOpenSessions ==
    \A role \in Roles : role \in activeConnections <=> OpenSessions(role) # {}

----------------------------------------------------------------------------
(* C39: lazy initialization happens at most once.  With tool calls in       *)
(* flight while the server is uninitialized and the storage is ready, at    *)
(* most one memory manager is constructed, with one storage handle and one  *)
(* upsert of the session row, and the protocol processor in use wraps the   *)
(* memory manager the server holds.                                         *)

C39_InitializedAtMostOnce ==
    /\ server.managers <= 1
    /\ server.upserts <= 1
    /\ server.protocolProcessor # 0 => server.protocolProcessor = server.memoryManager

----------------------------------------------------------------------------
(* C35: the stdio client never has overlapping connection attempts.  Under  *)
(* every interleaving of the open, close, error and timer events at most    *)
(* one socket of the client is waiting for its handshake and at most one    *)
(* reconnect timer is armed, the flag isReconnecting is set exactly while   *)
(* an attempt is in progress, and connectToBridge leaves the client as it   *)
(* is while the client is connected or an attempt is in progress.           *)

C35_NoOverlappingAttempts ==
    \A c \in Clients :
        LET cl == clients[c]
        IN  /\ cl.attempts <= 1
            /\ cl.timers <= 1
            /\ cl.isReconnecting <=> cl.attempts = 1
            /\ cl.connected \/ cl.attempts = 1 => connectToBridge(cl) = cl

\* a second timer is armed: the connection made by a reconnect was lost too
C35_Witness ==
    \E c \in Clients :
        /\ clients[c].timers = 1
        /\ clients[c].peer >= 2
        /\ clients[c].closeCode = AbnormalClosure

----------------------------------------------------------------------------
(* C36: after the connection of the stdio client closes with a code other   *)
(* than 1000 and 1001, the codes 1002 and 1008 of the relay's rejections    *)
(* included, one timer is armed and a new connection attempt is eventually  *)
(* started, every time this happens; after a close with 1000 or 1001 no     *)
(* timer is armed and the client stays closed for good.                     *)

ClosedWith(c, codes) ==
    /\ clients[c].ws
    /\ clients[c].wsState = CLOSED
    /\ clients[c].closeCode \in codes

NormalCodes == {NormalClosure, GoingAway}

\* a socket of the client is waiting for its handshake
Attempting(c) == clients[c].ws /\ clients[c].wsState = CONNECTING

----------------------------------------------------------------------------
(* C37: a message submitted through the send tool of the stdio client while *)
(* the client is not connected is queued, as the response of the tool       *)
(* says: after the call the client holds the message, so that it can be     *)
(* handed to the relay when the connection is made.                         *)

\* the messages the client holds: the frames it has sent and its queue
Held(cl) ==
    {cl.outbox[i] : i \in 1..Len(cl.outbox)}
        \cup {cl.messageQueue[i] : i \in 1..Len(cl.messageQueue)}

C37_UnsentMessageIsQueued ==
    [][\A c \in Clients :
            /\ counters'.messages = counters.messages + 1
            /\ clientCall'.op = "sendMessage"
            /\ clientCall'.client = c
            /\ clientCall'.text = NotConnectedText
            => clientCall'.message[1] \in Held(clients'[c])]_vars

----------------------------------------------------------------------------
(* C34: a message sent on a connection of role A is broadcast exactly once: *)
(* the relay sends it once on every tracked OPEN connection of role B and   *)
(* on no other connection.  A stdio client of role B whose connection is    *)
(* open eventually reads every frame the relay sent on it, unless the       *)
(* connection closes first, and pushes it at the end of its local queue;    *)
(* check_messages returns the queue and empties it, so a message is         *)
(* returned once; and the queue is the run of frames read since the last    *)
(* check, in the order the relay sent them, which is the order in which     *)
(* the messages were sent.                                                  *)

\* the step is the relay's 'message' handler, for `message`
Handles(message) ==
    /\ bridgeCall'.op = "wsMessage"
    /\ bridgeCall'.message = Some(message)
    /\ messageQueue' # messageQueue

BroadcastOnce ==
    \A from \in Roles, id \in (0 - MaxSockets)..MaxMessages :
        LET message == [id |-> id, from |-> from]
        IN  Handles(message) =>
                \A socket \in 1..MaxSockets :
                    delivered'[socket] =
                        IF socket \in wsClients[TargetOf(from)] /\ readyState[socket] = OPEN
                        THEN Append(delivered[socket], message)
                        ELSE delivered[socket]

\* no message was sent twice on a connection, and the messages of the peers
\* were sent in the order in which the relay received them
SentOnceInOrder ==
    \A socket \in 1..MaxSockets :
        \A i, j \in 1..Len(delivered[socket]) :
            i < j => /\ delivered[socket][i].id # delivered[socket][j].id
                     /\ delivered[socket][i].id > 0 /\ delivered[socket][j].id > 0
                            => delivered[socket][i].id < delivered[socket][j].id

IsOpen(c) == clients[c].ws /\ clients[c].wsState = OPEN

\* the client has read `count` frames of its connection and more have been sent
Behind(c, count) ==
    /\ IsOpen(c)
    /\ clients[c].received = count
    /\ Len(delivered[clients[c].peer]) > count

\* the local queue is the run of frames read since the last check
QueueIsLastRead ==
    \A c \in Clients :
        LET cl == clients[c]
        IN  cl.ws /\ cl.peer # 0 =>
                /\ Len(cl.messageQueue) <= cl.received
                /\ cl.received <= Len(delivered[cl.peer])
                /\ cl.messageQueue =
                        SubSeq(delivered[cl.peer], cl.received - Len(cl.messageQueue) + 1,
                               cl.received)

\* the step is the check_messages tool of the client
IsCheck(c) ==
    /\ clientCall'.op = "checkMessages"
    /\ clientCall'.client = c
    /\ UNCHANGED bridgeVars

ReturnedOnce ==
    \A c \in Clients :
        IsCheck(c) => /\ clientCall'.messages = clients[c].messageQueue
                      /\ clients'[c].messageQueue = <<>>

C34_BroadcastOnceAndReceivedInOrder ==
    /\ [][BroadcastOnce /\ ReturnedOnce]_vars
    /\ [](SentOnceInOrder /\ QueueIsLastRead)
    /\ \A c \in Clients : \A count \in 0..MaxMessages :
            Behind(c, count) ~> (~IsOpen(c) \/ clients[c].received > count)

\* check_messages returned two messages of the peers, in the order sent
C34_Witness ==
    /\ clientCall.op = "checkMessages"
    /\ Len(clientCall.messages) = 2
    /\ clientCall.messages[1].id < clientCall.messages[2].id

====
